---- MODULE Spec2Model ----
(***************************************************************************)
(* Candidate-matching scoring pipeline of the ATS server: the analyzers    *)
(* (skills, experience, education, location, red flags, custom criteria),  *)
(* the aggregating manager and the single-resume / multi-resume entry      *)
(* points, as state machines over bounded inputs.                          *)
(*                                                                         *)
(* Numbers are JavaScript numbers restricted to exact rationals plus NaN   *)
(* and Infinity; strings are TLA+ strings; dates are day numbers.          *)
(***************************************************************************)
EXTENDS Integers, Sequences, FiniteSets, TLC

VARIABLES
  db,          \* the SkillsDatabaseManager singleton's database
  call,        \* the analyzer call under study: [op, in, out]
  tfidfDocs,   \* documents held by the CustomCriteriaAnalyzer singleton's TfIdf
  history,     \* (input, score) pairs of the analyzeCriteria calls made so far
  batch,       \* multi-candidate run: [pc, todo, done, failed, outcome, comparison]
  req          \* single-resume request: [variant, pc, ...]

vars == <<db, call, tfidfDocs, history, batch, req>>

-----------------------------------------------------------------------------
(* JavaScript numbers: exact rationals n/d with d > 0, NaN, and the        *)
(* infinities (k = "inf", n = 1 or -1).                                    *)

RECURSIVE Gcd(_, _)
Gcd(a, b) == IF b = 0 THEN a ELSE Gcd(b, a % b)

Abs(x) == IF x < 0 THEN -x ELSE x

Sign(x) == IF x < 0 THEN -1 ELSE 1

NaN == [k |-> "nan", n |-> 0, d |-> 1]
Infinity == [k |-> "inf", n |-> 1, d |-> 1]

\* Infinity or -Infinity
Inf(sign) == [k |-> "inf", n |-> sign, d |-> 1]

Rat(n, d) ==
  LET g == Gcd(Abs(n), d)
  IN  [k |-> "num", n |-> n \div g, d |-> d \div g]

Num(n) == [k |-> "num", n |-> n, d |-> 1]

IsFinite(x) == x.k = "num"

IsZero(x) == x.k = "num" /\ x.n = 0

\* a / b: x/0 is NaN for x = 0, else an infinity
JsDiv(a, b) ==
  IF a.k = "nan" \/ b.k = "nan" THEN NaN
  ELSE IF a.k = "inf" THEN (IF b.k = "inf" THEN NaN ELSE Inf(a.n * Sign(b.n)))
  ELSE IF b.k = "inf" THEN Num(0)
  ELSE IF b.n = 0 THEN (IF a.n = 0 THEN NaN ELSE Inf(Sign(a.n)))
  ELSE Rat(Sign(b.n) * a.n * b.d, a.d * Abs(b.n))

JsMul(a, b) ==
  IF a.k = "nan" \/ b.k = "nan" THEN NaN
  ELSE IF a.k = "inf" \/ b.k = "inf"
       THEN (IF IsZero(a) \/ IsZero(b) THEN NaN ELSE Inf(Sign(a.n) * Sign(b.n)))
  ELSE Rat(a.n * b.n, a.d * b.d)

JsAdd(a, b) ==
  IF a.k = "nan" \/ b.k = "nan" THEN NaN
  ELSE IF a.k = "inf" THEN (IF b.k = "inf" /\ b.n # a.n THEN NaN ELSE a)
  ELSE IF b.k = "inf" THEN b
  ELSE Rat(a.n * b.d + b.n * a.d, a.d * b.d)

JsSub(a, b) == JsAdd(a, [b EXCEPT !.n = -b.n])

Lt(a, b) ==
  /\ a.k # "nan" /\ b.k # "nan"
  /\ IF a.k = "inf" THEN a.n < 0 /\ ~(b.k = "inf" /\ b.n < 0)
     ELSE IF b.k = "inf" THEN b.n > 0
     ELSE a.n * b.d < b.n * a.d
Le(a, b) == a.k # "nan" /\ b.k # "nan" /\ (a = b \/ Lt(a, b))
Gt(a, b) == Lt(b, a)
Ge(a, b) == Le(b, a)

\* Math.min / Math.max: NaN if either argument is NaN
JsMin(a, b) ==
  IF a.k = "nan" \/ b.k = "nan" THEN NaN ELSE IF Le(a, b) THEN a ELSE b

JsMax(a, b) ==
  IF a.k = "nan" \/ b.k = "nan" THEN NaN ELSE IF Ge(a, b) THEN a ELSE b

\* Math.round: floor(x + 1/2); NaN and Infinity are returned unchanged
JsRound(x) ==
  IF x.k # "num" THEN x ELSE Num((2 * x.n + x.d) \div (2 * x.d))

\* a number in [0,100], neither NaN nor infinite
InPercentRange(x) == x.k = "num" /\ x.n >= 0 /\ x.n <= 100 * x.d

RECURSIVE SumSeq(_)
SumSeq(s) == IF s = <<>> THEN Num(0) ELSE JsAdd(Head(s), SumSeq(Tail(s)))

-----------------------------------------------------------------------------
(* Strings.                                                                *)

UpperChars == "ABCDEFGHIJKLMNOPQRSTUVWXYZ"
LowerChars == "abcdefghijklmnopqrstuvwxyz"
DigitChars == "0123456789"

CharAt(s, i) == SubSeq(s, i, i)

IsCharOf(c, alphabet) == \E i \in 1..Len(alphabet) : CharAt(alphabet, i) = c

\* the accented capitals of the texts analysed here and their lower case
AccentedUpperChars == "ÀÂÇÉÈÊËÎÏÔÙÛÜ"
AccentedLowerChars == "àâçéèêëîïôùûü"

LowerChar(c) ==
  IF IsCharOf(c, UpperChars)
  THEN CharAt(LowerChars, CHOOSE i \in 1..Len(UpperChars) : CharAt(UpperChars, i) = c)
  ELSE IF IsCharOf(c, AccentedUpperChars)
  THEN CharAt(AccentedLowerChars,
              CHOOSE i \in 1..Len(AccentedUpperChars) : CharAt(AccentedUpperChars, i) = c)
  ELSE c

RECURSIVE toLowerCase(_)
toLowerCase(s) ==
  IF Len(s) = 0 THEN s
  ELSE IF Len(s) = 1 THEN LowerChar(s)
  ELSE toLowerCase(SubSeq(s, 1, Len(s) \div 2))
         \o toLowerCase(SubSeq(s, Len(s) \div 2 + 1, Len(s)))

\* String.prototype.includes
includes(text, sub) ==
  \E i \in 1..(Len(text) - Len(sub) + 1) : SubSeq(text, i, i + Len(sub) - 1) = sub

\* Array.prototype.includes on a sequence
Contains(seq, x) == \E i \in 1..Len(seq) : seq[i] = x

IsWordChar(c) ==
  IsCharOf(c, UpperChars) \/ IsCharOf(c, LowerChars) \/ IsCharOf(c, DigitChars) \/ c = "_"

\* natural.WordTokenizer.tokenize: the maximal runs of word characters
RECURSIVE TokenizeFrom(_, _, _)
TokenizeFrom(s, i, cur) ==
  IF i > Len(s) THEN (IF cur = "" THEN <<>> ELSE <<cur>>)
  ELSE IF IsWordChar(CharAt(s, i)) THEN TokenizeFrom(s, i + 1, cur \o CharAt(s, i))
  ELSE (IF cur = "" THEN <<>> ELSE <<cur>>) \o TokenizeFrom(s, i + 1, "")

tokenize(s) == TokenizeFrom(s, 1, "")

\* split(/\s+/) and split(/[\s,]+/): split at runs of separator characters,
\* keeping a leading or trailing empty piece as JavaScript does
RECURSIVE SplitFrom(_, _, _, _)
SplitFrom(s, seps, i, cur) ==
  IF i > Len(s) THEN <<cur>>
  ELSE IF IsCharOf(CharAt(s, i), seps)
       THEN (IF i > 1 /\ IsCharOf(CharAt(s, i - 1), seps)
             THEN SplitFrom(s, seps, i + 1, cur)
             ELSE <<cur>> \o SplitFrom(s, seps, i + 1, ""))
  ELSE SplitFrom(s, seps, i + 1, cur \o CharAt(s, i))

SplitOn(s, seps) == SplitFrom(s, seps, 1, "")

SeqToSet(s) == {s[i] : i \in 1..Len(s)}

-----------------------------------------------------------------------------
(* natural.JaroWinklerDistance(s1, s2), as an exact rational.              *)

Min2(a, b) == IF a <= b THEN a ELSE b
Max2(a, b) == IF a >= b THEN a ELSE b

SetMin(S) == CHOOSE x \in S : \A y \in S : x <= y

\* the pair <<indices of s1 matched, indices of s2 matched>> within the window
RECURSIVE JaroMatches(_, _, _, _, _)
JaroMatches(s1, s2, i, m1, m2) ==
  IF i > Len(s1) THEN <<m1, m2>>
  ELSE LET w == (Max2(Len(s1), Len(s2)) \div 2) - 1
           cands == {k \in Max2(1, i - w)..Min2(i + w, Len(s2)) :
                       k \notin m2 /\ CharAt(s1, i) = CharAt(s2, k)}
       IN  IF cands = {} THEN JaroMatches(s1, s2, i + 1, m1, m2)
           ELSE JaroMatches(s1, s2, i + 1, m1 \cup {i}, m2 \cup {SetMin(cands)})

\* the characters of s at the indices idx, in order
RECURSIVE PickChars(_, _, _)
PickChars(s, idx, i) ==
  IF i > Len(s) THEN <<>>
  ELSE (IF i \in idx THEN <<CharAt(s, i)>> ELSE <<>>) \o PickChars(s, idx, i + 1)

\* the Jaro similarity from the matched indices mm
JaroOfMatches(s1, s2, mm) ==
  LET m  == Cardinality(mm[1])
      c1 == PickChars(s1, mm[1], 1)
      c2 == PickChars(s2, mm[2], 1)
      t2 == Cardinality({j \in 1..m : c1[j] # c2[j]})   \* twice t
  IN  IF m = 0 THEN Num(0)
      ELSE JsDiv(JsAdd(JsAdd(Rat(m, Len(s1)), Rat(m, Len(s2))),
                       Rat(2 * m - t2, 2 * m)),
                 Num(3))

JaroDistance(s1, s2) ==
  IF Len(s1) = 0 \/ Len(s2) = 0 THEN Num(0)
  ELSE JaroOfMatches(s1, s2, JaroMatches(s1, s2, 1, {}, {}))

RECURSIVE CommonPrefix(_, _, _)
CommonPrefix(s1, s2, l) ==
  IF l < 4 /\ l < Len(s1) /\ l < Len(s2) /\ CharAt(s1, l + 1) = CharAt(s2, l + 1)
  THEN CommonPrefix(s1, s2, l + 1) ELSE l

\* the Winkler bonus for a common prefix of length l
Winkler(jaro, l) == JsAdd(jaro, JsMul(Rat(l, 10), JsSub(Num(1), jaro)))

calculateJaroWinklerDistance(str1, str2) ==
  IF str1 = str2 THEN Num(1)
  ELSE Winkler(JaroDistance(str1, str2), CommonPrefix(str1, str2, 0))

-----------------------------------------------------------------------------
(* SkillsDatabaseManager.                                                  *)

\* the database of a freshly constructed manager
EmptyDatabase == [categories |-> <<>>, allSynonyms |-> <<>>]

\* an object with string keys in insertion order: a sequence of [key, val]
HasKey(obj, key) == \E i \in 1..Len(obj) : obj[i].key = key

Lookup(obj, key) == obj[CHOOSE i \in 1..Len(obj) : obj[i].key = key].val

SetKey(obj, key, val) ==
  IF HasKey(obj, key)
  THEN [i \in 1..Len(obj) |-> IF obj[i].key = key THEN [key |-> key, val |-> val] ELSE obj[i]]
  ELSE Append(obj, [key |-> key, val |-> val])

DefaultCategories == <<
  [name |-> "Programming Languages",
   keywords |-> <<"java", "python", "javascript", "typescript", "c++", "c#">>,
   synonyms |-> << [key |-> "javascript", val |-> <<"js", "ecmascript", "node.js", "nodejs">>],
                   [key |-> "python", val |-> <<"py", "python3", "python2">>],
                   [key |-> "typescript", val |-> <<"ts">>] >>],
  [name |-> "Web Development",
   keywords |-> <<"react", "angular", "vue", "html", "css", "sass">>,
   synonyms |-> << [key |-> "react", val |-> <<"reactjs", "react.js", "react native">>],
                   [key |-> "angular", val |-> <<"angularjs", "angular2+">>],
                   [key |-> "vue", val |-> <<"vuejs", "vue.js">>] >>],
  [name |-> "DevOps",
   keywords |-> <<"docker", "kubernetes", "aws", "azure", "ci/cd">>,
   synonyms |-> << [key |-> "kubernetes", val |-> <<"k8s", "kube">>],
                   [key |-> "ci/cd", val |-> <<"continuous integration",
                                               "continuous deployment", "pipeline">>] >>] >>

\* the reverse references of one authored entry
RECURSIVE AddReverse(_, _, _)
AddReverse(index, key, synonyms) ==
  IF synonyms = <<>> THEN index
  ELSE LET syn == Head(synonyms)
           next == IF ~HasKey(index, syn) THEN SetKey(index, syn, <<key>>)
                   ELSE IF ~Contains(Lookup(index, syn), key)
                        THEN SetKey(index, syn, Append(Lookup(index, syn), key))
                        ELSE index
       IN  AddReverse(next, key, Tail(synonyms))

RECURSIVE IndexEntries(_, _)
IndexEntries(index, entries) ==
  IF entries = <<>> THEN index
  ELSE LET e == Head(entries)
       IN  IndexEntries(AddReverse(SetKey(index, e.key, e.val), e.key, e.val), Tail(entries))

RECURSIVE IndexCategories(_, _)
IndexCategories(index, categories) ==
  IF categories = <<>> THEN index
  ELSE IndexCategories(IndexEntries(index, Head(categories).synonyms), Tail(categories))

buildSynonymsIndex(categories) == IndexCategories(<<>>, categories)

initializeDefaultData ==
  [categories |-> DefaultCategories, allSynonyms |-> buildSynonymsIndex(DefaultCategories)]

findSynonyms(database, skill) ==
  LET normalizedSkill == toLowerCase(skill)
  IN  IF HasKey(database.allSynonyms, normalizedSkill)
      THEN Lookup(database.allSynonyms, normalizedSkill) ELSE <<>>

\* isSkillEquivalent without its third test, synonyms2.includes(normalized1)
isSkillEquivalent_ForwardOnly(database, skill1, skill2) ==
  LET normalized1 == toLowerCase(skill1)
      normalized2 == toLowerCase(skill2)
      synonyms1 == findSynonyms(database, normalized1)
      synonyms2 == findSynonyms(database, normalized2)
  IN  \/ normalized1 = normalized2
      \/ Contains(synonyms1, normalized2)
      \/ \E i \in 1..Len(synonyms1) : Contains(synonyms2, synonyms1[i])

isSkillEquivalent(database, skill1, skill2) ==
  LET normalized1 == toLowerCase(skill1)
      normalized2 == toLowerCase(skill2)
      synonyms1 == findSynonyms(database, normalized1)
      synonyms2 == findSynonyms(database, normalized2)
  IN  \/ normalized1 = normalized2
      \/ Contains(synonyms1, normalized2)
      \/ Contains(synonyms2, normalized1)
      \/ \E i \in 1..Len(synonyms1) : Contains(synonyms2, synonyms1[i])

CategoryHasSkill(category, normalizedSkill) ==
  \/ Contains(category.keywords, normalizedSkill)
  \/ \E i \in 1..Len(category.synonyms) :
       \/ category.synonyms[i].key = normalizedSkill
       \/ Contains(category.synonyms[i].val, normalizedSkill)

\* the category name, or "" for null
getCategoryForSkill(database, skill) ==
  LET normalizedSkill == toLowerCase(skill)
      hits == {i \in 1..Len(database.categories) :
                 CategoryHasSkill(database.categories[i], normalizedSkill)}
  IN  IF hits = {} THEN "" ELSE database.categories[SetMin(hits)].name

-----------------------------------------------------------------------------
(* SkillsAnalyzer.                                                         *)

\* String.prototype.indexOf, 0-based, -1 when absent
indexOf(text, sub) ==
  LET hits == {i \in 1..(Len(text) - Len(sub) + 1) : SubSeq(text, i, i + Len(sub) - 1) = sub}
  IN  IF hits = {} THEN -1 ELSE SetMin(hits) - 1

RECURSIVE trim(_)
trim(s) ==
  IF Len(s) = 0 THEN s
  ELSE IF CharAt(s, 1) = " " THEN trim(Tail(s))
  ELSE IF CharAt(s, Len(s)) = " " THEN trim(SubSeq(s, 1, Len(s) - 1))
  ELSE s

windowSize == 50

extractContext(text, skill) ==
  LET index == indexOf(toLowerCase(text), toLowerCase(skill))
      start == Max2(0, index - windowSize)
      end   == Min2(Len(text), index + Len(skill) + windowSize)
  IN  IF index = -1 THEN "" ELSE trim(SubSeq(text, start + 1, end))

\* the keywords of the source list that an ASCII token can equal; the others
\* carry an accented letter, at which the tokenizer splits
positiveContextKeywords == <<"expert", "expertise", "certification", "projet">>

BaseConfidence(database, requiredSkill, foundSkill) ==
  IF toLowerCase(requiredSkill) = toLowerCase(foundSkill) THEN Num(1)
  ELSE IF isSkillEquivalent(database, requiredSkill, foundSkill) THEN Rat(9, 10)
  ELSE JsMul(calculateJaroWinklerDistance(toLowerCase(requiredSkill),
                                          toLowerCase(foundSkill)),
             Rat(8, 10))

\* the confidence after the bonus for a positive context
ContextBonus(confidence, context) ==
  LET contextWords == tokenize(toLowerCase(context))
      hasPositiveContext ==
        \E i \in 1..Len(positiveContextKeywords) :
           Contains(contextWords, positiveContextKeywords[i])
  IN  IF context # "" /\ hasPositiveContext
      THEN JsMin(Num(1), JsAdd(confidence, Rat(1, 10)))
      ELSE confidence

calculateSkillConfidence(database, requiredSkill, foundSkill, context) ==
  ContextBonus(BaseConfidence(database, requiredSkill, foundSkill), context)

CategoryOrOther(database, skill) ==
  LET c == getCategoryForSkill(database, skill) IN IF c = "" THEN "Other" ELSE c

\* BetterVariant where a variant of equal confidence replaces the best match
BetterVariant_OnTie(database, requiredSkill, variant, context, confidence, best) ==
  IF best = <<>> \/ Ge(confidence, best[1].confidence)
  THEN << [skill |-> requiredSkill, found |-> variant,
           category |-> CategoryOrOther(database, requiredSkill),
           confidence |-> confidence, context |-> context] >>
  ELSE best

\* bestMatch after a variant found in the text with this confidence;
\* best = <<>> is null
BetterVariant(database, requiredSkill, variant, context, confidence, best) ==
  IF best = <<>> \/ Gt(confidence, best[1].confidence)
  THEN << [skill |-> requiredSkill, found |-> variant,
           category |-> CategoryOrOther(database, requiredSkill),
           confidence |-> confidence, context |-> context] >>
  ELSE best

FoundVariant(database, requiredSkill, variant, context, best) ==
  BetterVariant(database, requiredSkill, variant, context,
                calculateSkillConfidence(database, requiredSkill, variant, context), best)

\* the best match among the variants from position i on
RECURSIVE BestVariant(_, _, _, _, _, _)
BestVariant(database, resumeText, requiredSkill, variants, i, best) ==
  IF i > Len(variants) THEN best
  ELSE BestVariant(database, resumeText, requiredSkill, variants, i + 1,
         IF includes(toLowerCase(resumeText), toLowerCase(variants[i]))
         THEN FoundVariant(database, requiredSkill, variants[i],
                           extractContext(resumeText, variants[i]), best)
         ELSE best)

SkillBestMatch(database, resumeText, requiredSkill) ==
  BestVariant(database, resumeText, requiredSkill,
              <<requiredSkill>> \o findSynonyms(database, requiredSkill), 1, <<>>)

\* per required skill, bestMatch or <<>>
SkillOutcomes(database, resumeText, requiredSkills) ==
  [i \in 1..Len(requiredSkills) |-> SkillBestMatch(database, resumeText, requiredSkills[i])]

\* the matches pushed, in order
RECURSIVE Flatten(_)
Flatten(outcomes) ==
  IF outcomes = <<>> THEN <<>> ELSE Head(outcomes) \o Flatten(Tail(outcomes))

\* the requirements whose outcome is no match, in order
RECURSIVE Missed(_, _)
Missed(required, outcomes) ==
  IF required = <<>> THEN <<>>
  ELSE (IF Head(outcomes) = <<>> THEN <<Head(required)>> ELSE <<>>)
       \o Missed(Tail(required), Tail(outcomes))

RECURSIVE Confidences(_)
Confidences(matches) ==
  IF matches = <<>> THEN <<>> ELSE <<Head(matches).confidence>> \o Confidences(Tail(matches))

SkillCategoryStats(database, matches, missing, category) ==
  LET InCat(m) == m.category = category
      MissingInCat(skill) == CategoryOrOther(database, skill) = category
      totalSkills == Len(SelectSeq(matches, InCat)) + Len(SelectSeq(missing, MissingInCat))
  IN  [score |-> IF totalSkills > 0
                 THEN JsRound(JsMul(JsDiv(SumSeq(Confidences(SelectSeq(matches, InCat))),
                                          Num(totalSkills)), Num(100)))
                 ELSE Num(0),
       matches |-> SelectSeq(matches, InCat),
       missing |-> SelectSeq(missing, MissingInCat)]

SkillAnalysis(database, requiredSkills, matches, missing) ==
  LET names == {matches[i].category : i \in 1..Len(matches)}
               \cup {CategoryOrOther(database, missing[i]) : i \in 1..Len(missing)}
  IN  [matches |-> matches,
       missing |-> missing,
       score |-> JsRound(JsMul(JsDiv(SumSeq(Confidences(matches)),
                                     Num(Len(requiredSkills))), Num(100))),
       recommendations |-> <<>>,
       categories |-> [c \in names |-> SkillCategoryStats(database, matches, missing, c)]]

SkillOutcome(database, requiredSkills, outcomes) ==
  SkillAnalysis(database, requiredSkills, Flatten(outcomes), Missed(requiredSkills, outcomes))

analyzeSkills(database, resumeText, requiredSkills) ==
  SkillOutcome(database, requiredSkills,
               SkillOutcomes(database, resumeText, requiredSkills))

-----------------------------------------------------------------------------
(* Dates are day numbers; an absent date is <<>>, a date on day t is <<t>>.*)

NoDate == <<>>
Day(t) == <<t>>
IsDate(d) == d # <<>>
getTime(d) == d[1]

\* a?.getTime() || 0
TimeOrZero(d) == IF IsDate(d) THEN getTime(d) ELSE 0

\* stable sort of a sequence of <<key, item>> pairs by key, ascending
RECURSIVE InsertPair(_, _)
InsertPair(sorted, x) ==
  IF sorted = <<>> THEN <<x>>
  ELSE IF x[1] < Head(sorted)[1] THEN <<x>> \o sorted
  ELSE <<Head(sorted)>> \o InsertPair(Tail(sorted), x)

RECURSIVE SortPairs(_)
SortPairs(s) ==
  IF s = <<>> THEN <<>>
  ELSE InsertPair(SortPairs(SubSeq(s, 1, Len(s) - 1)), s[Len(s)])

\* Array.prototype.sort with the comparator Key(a) - Key(b)
SortByKey(s, Key(_)) ==
  LET sorted == SortPairs([i \in 1..Len(s) |-> <<Key(s[i]), s[i]>>])
  IN  [i \in 1..Len(s) |-> sorted[i][2]]

RECURSIVE SumInts(_)
SumInts(s) == IF s = <<>> THEN 0 ELSE Head(s) + SumInts(Tail(s))

-----------------------------------------------------------------------------
(* RedFlagAnalyzer.                                                        *)

\* months between two dates: ceil(|end - start| days / 30.44)
calculateDuration(startDate, endDate) ==
  (Abs(getTime(endDate) - getTime(startDate)) * 100 + 3043) \div 3044

StartKey(exp) == TimeOrZero(exp.startDate)

findTimeGaps(experiences) ==
  LET sortedExperiences == SortByKey(experiences, StartKey)
      IsGap(i) ==
        /\ IsDate(sortedExperiences[i].startDate)
        /\ IsDate(sortedExperiences[i - 1].endDate)
        /\ getTime(sortedExperiences[i].startDate) > getTime(sortedExperiences[i - 1].endDate)
        /\ calculateDuration(sortedExperiences[i - 1].endDate,
                             sortedExperiences[i].startDate) > 3
      GapAt(i) ==
        [startDate |-> sortedExperiences[i - 1].endDate,
         endDate |-> sortedExperiences[i].startDate,
         duration |-> calculateDuration(sortedExperiences[i - 1].endDate,
                                        sortedExperiences[i].startDate)]
      RECURSIVE Gaps(_)
      Gaps(i) == IF i > Len(sortedExperiences) THEN <<>>
                 ELSE (IF IsGap(i) THEN <<GapAt(i)>> ELSE <<>>) \o Gaps(i + 1)
  IN  Gaps(2)

seniorityKeywords == <<"senior", "lead", "manager", "director", "chef", "responsable">>

HasKeyword(role, keywords) == \E i \in 1..Len(keywords) : includes(role, keywords[i])

RECURSIVE Roles(_)
Roles(experiences) ==
  IF experiences = <<>> THEN <<>> ELSE <<Head(experiences).role>> \o Roles(Tail(experiences))

analyzeExperienceConsistency(experiences) ==
  LET IsShort(exp) == exp.duration < 12
      shortTermPositions == SelectSeq(experiences, IsShort)
      juniorToSenior ==
        \E index \in 2..Len(experiences) :
          LET current == experiences[index]
              previous == experiences[index - 1]
          IN  /\ HasKeyword(toLowerCase(current.role), seniorityKeywords)
              /\ ~HasKeyword(toLowerCase(previous.role), seniorityKeywords)
              /\ IsDate(current.startDate) /\ IsDate(previous.startDate)
              /\ calculateDuration(previous.startDate, current.startDate) < 24
  IN  (IF Len(shortTermPositions) >= 2
       THEN << [type |-> "roles", description |-> "Changements frequents de poste",
                elements |-> Roles(shortTermPositions),
                severity |-> IF Len(shortTermPositions) >= 3 THEN "high" ELSE "medium"] >>
       ELSE <<>>)
      \o
      (IF juniorToSenior
       THEN << [type |-> "roles",
                description |-> "Progression de carriere inhabituellement rapide",
                elements |-> [i \in 1..Len(experiences) |-> toLowerCase(experiences[i].role)],
                severity |-> "medium"] >>
       ELSE <<>>)

\* every skill mention of the experiences, in order: [skill, exp]
RECURSIVE SkillMentions(_)
SkillMentions(experiences) ==
  IF experiences = <<>> THEN <<>>
  ELSE [i \in 1..Len(Head(experiences).skills) |->
          [skill |-> Head(experiences).skills[i], exp |-> Head(experiences)]]
       \o SkillMentions(Tail(experiences))

\* the skillTimeline map after the mentions: key = skill, val = its data
RECURSIVE SkillTimeline(_, _, _)
SkillTimeline(timeline, mentions, now) ==
  IF mentions = <<>> THEN timeline
  ELSE LET m == Head(mentions)
           old == IF HasKey(timeline, m.skill) THEN Lookup(timeline, m.skill)
                  ELSE [firstMention |-> IF IsDate(m.exp.startDate) THEN m.exp.startDate ELSE now,
                        lastMention |-> IF IsDate(m.exp.endDate) THEN m.exp.endDate ELSE now,
                        occurrences |-> 0]
           first == IF IsDate(m.exp.startDate)
                       /\ getTime(m.exp.startDate) < getTime(old.firstMention)
                    THEN m.exp.startDate ELSE old.firstMention
           last == IF IsDate(m.exp.endDate)
                      /\ getTime(m.exp.endDate) > getTime(old.lastMention)
                   THEN m.exp.endDate ELSE old.lastMention
       IN  SkillTimeline(SetKey(timeline, m.skill,
                                [firstMention |-> first, lastMention |-> last,
                                 occurrences |-> old.occurrences + 1]),
                         Tail(mentions), now)

RECURSIVE Keys(_)
Keys(obj) == IF obj = <<>> THEN <<>> ELSE <<Head(obj).key>> \o Keys(Tail(obj))

\* the issues of one certification against the skills related to its name
RECURSIVE CertIssues(_, _, _)
CertIssues(cert, skills, timeline) ==
  IF skills = <<>> THEN <<>>
  ELSE LET skill == Head(skills)
           skillData == Lookup(timeline, skill)
       IN  (IF includes(toLowerCase(cert.name), toLowerCase(skill))
               /\ IsDate(cert.date)
               /\ calculateDuration(skillData.firstMention, cert.date) < 6
            THEN << [type |-> "skills",
                     description |-> "Certification obtenue avec peu d'experience pratique",
                     elements |-> <<skill, cert.name>>, severity |-> "medium"] >>
            ELSE <<>>)
           \o CertIssues(cert, Tail(skills), timeline)

RECURSIVE AllCertIssues(_, _, _)
AllCertIssues(certifications, skills, timeline) ==
  IF certifications = <<>> THEN <<>>
  ELSE CertIssues(Head(certifications), skills, timeline)
       \o AllCertIssues(Tail(certifications), skills, timeline)

analyzeSkillConsistency(experiences, certifications, now) ==
  LET skillTimeline == SkillTimeline(<<>>, SkillMentions(experiences), now)
      Once(e) == e.val.occurrences = 1
      oneTimeSkills == Keys(SelectSeq(skillTimeline, Once))
  IN  (IF Len(oneTimeSkills) > 3
       THEN << [type |-> "skills",
                description |-> "Plusieurs competences mentionnees une seule fois",
                elements |-> oneTimeSkills, severity |-> "low"] >>
       ELSE <<>>)
      \o AllCertIssues(certifications, Keys(skillTimeline), skillTimeline)

datesOverlap(start1, end1, start2, end2) ==
  /\ IsDate(start1) /\ IsDate(end1) /\ IsDate(start2) /\ IsDate(end2)
  /\ \/ (getTime(start1) <= getTime(end2) /\ getTime(end1) >= getTime(start2))
     \/ (getTime(start2) <= getTime(end1) /\ getTime(end2) >= getTime(start1))

RECURSIVE Durations(_)
Durations(experiences) ==
  IF experiences = <<>> THEN <<>>
  ELSE <<Head(experiences).duration>> \o Durations(Tail(experiences))

RECURSIVE analyzeEducationConsistency(_, _)
analyzeEducationConsistency(education, experiences) ==
  IF education = <<>> THEN <<>>
  ELSE LET edu == Head(education)
           Overlaps(exp) == datesOverlap(exp.startDate, exp.endDate, edu.startDate, edu.endDate)
           overlappingExperiences == SelectSeq(experiences, Overlaps)
           totalWorkHours == SumInts(Durations(overlappingExperiences)) * 40
       IN  (IF Len(overlappingExperiences) > 0 /\ totalWorkHours > 1000
            THEN << [type |-> "education",
                     description |-> "Charge de travail importante pendant les etudes",
                     elements |-> <<edu.degree>> \o Roles(overlappingExperiences),
                     severity |-> "medium"] >>
            ELSE <<>>)
           \o analyzeEducationConsistency(Tail(education), experiences)

\* GapFlag with the critical threshold taken inclusively
GapFlag_InclusiveCritical(gap) ==
  IF gap.duration >= 12
  THEN << [type |-> "critical", category |-> "experience",
           description |-> "Gap significatif dans le parcours professionnel",
           details |-> <<gap.duration, gap.startDate, gap.endDate>>,
           impact |-> 80] >>
  ELSE IF gap.duration > 6
  THEN << [type |-> "warning", category |-> "experience",
           description |-> "Gap notable dans le parcours professionnel",
           details |-> <<gap.duration>>,
           impact |-> 50] >>
  ELSE <<>>

\* the flag of one time gap: critical above 12 months, warning above 6
GapFlag(gap) ==
  IF gap.duration > 12
  THEN << [type |-> "critical", category |-> "experience",
           description |-> "Gap significatif dans le parcours professionnel",
           details |-> <<gap.duration, gap.startDate, gap.endDate>>,
           impact |-> 80] >>
  ELSE IF gap.duration > 6
  THEN << [type |-> "warning", category |-> "experience",
           description |-> "Gap notable dans le parcours professionnel",
           details |-> <<gap.duration>>,
           impact |-> 50] >>
  ELSE <<>>

RECURSIVE GapFlags(_)
GapFlags(timeGaps) ==
  IF timeGaps = <<>> THEN <<>> ELSE GapFlag(Head(timeGaps)) \o GapFlags(Tail(timeGaps))

IssueFlag(issue) ==
  [type |-> IF issue.severity = "high" THEN "critical"
            ELSE IF issue.severity = "medium" THEN "warning" ELSE "info",
   category |-> IF issue.type = "education" THEN "education"
                ELSE IF issue.type = "skills" THEN "skills" ELSE "experience",
   description |-> issue.description,
   details |-> issue.elements,
   impact |-> IF issue.severity = "high" THEN 70
              ELSE IF issue.severity = "medium" THEN 40 ELSE 20]

RECURSIVE Impacts(_)
Impacts(flags) == IF flags = <<>> THEN <<>> ELSE <<Head(flags).impact>> \o Impacts(Tail(flags))

RedFlagRecommendations(flags, timeGaps) ==
  LET IsCritical(f) == f.type = "critical"
      criticalFlags == SelectSeq(flags, IsCritical)
  IN  (IF Len(criticalFlags) > 0
       THEN << <<"Points a eclaircir lors de l'entretien :">> >>
            \o [i \in 1..Len(criticalFlags) |-> <<"- ", criticalFlags[i].description>>]
       ELSE <<>>)
      \o
      (IF Len(timeGaps) > 0
       THEN << <<"Demander des explications sur les periodes d'inactivite :">> >>
            \o [i \in 1..Len(timeGaps) |->
                  <<"- Periode", timeGaps[i].startDate, timeGaps[i].endDate>>]
       ELSE <<>>)
      \o
      (IF \E i \in 1..Len(flags) : flags[i].category = "skills"
       THEN << <<"Verifier en profondeur les competences techniques lors de l'entretien">> >>
       ELSE <<>>)
      \o
      (IF \E i \in 1..Len(flags) : flags[i].category = "experience" /\ flags[i].impact > 60
       THEN << <<"Prevoir une periode d'essai plus encadree">> >>
       ELSE <<>>)

analyzeProfile(experiences, education, certifications, now) ==
  LET timeGaps == findTimeGaps(experiences)
      consistencyIssues ==
        analyzeExperienceConsistency(experiences)
        \o analyzeSkillConsistency(experiences, certifications, now)
        \o analyzeEducationConsistency(education, experiences)
      flags == GapFlags(timeGaps)
               \o [i \in 1..Len(consistencyIssues) |-> IssueFlag(consistencyIssues[i])]
      overallRisk ==
        JsMin(Num(100), JsRound(JsDiv(Num(SumInts(Impacts(flags))), Num(Len(flags)))))
  IN  [flags |-> flags,
       consistencyIssues |-> consistencyIssues,
       timeGaps |-> timeGaps,
       overallRisk |-> overallRisk,
       recommendations |-> RedFlagRecommendations(flags, timeGaps)]

-----------------------------------------------------------------------------
(* ExperienceAnalyzer.                                                     *)
(* The weights 0.6, 0.4, 0.3 are the exact rationals 3/5, 2/5, 3/10.       *)

calculateRoleRelevance(requiredRole, experience) ==
  LET roleSimilarity == calculateJaroWinklerDistance(toLowerCase(requiredRole),
                                                     toLowerCase(experience.role))
      keywords == tokenize(toLowerCase(requiredRole))
      descriptionWords == SeqToSet(tokenize(toLowerCase(experience.description)))
      InDescription(word) == word \in descriptionWords
      keywordMatches == SelectSeq(keywords, InDescription)
      keywordScore == IF Len(keywords) > 0 THEN Rat(Len(keywordMatches), Len(keywords))
                      ELSE Num(0)
  IN  JsAdd(JsMul(roleSimilarity, Rat(6, 10)), JsMul(keywordScore, Rat(4, 10)))

Names(matches) == [i \in 1..Len(matches) |-> matches[i].skill]

ExperienceMatch(requiredRole, experience, relevance, skillsAnalysis, durationMatch) ==
  [requiredRole |-> requiredRole,
   matchedExperience |-> experience,
   relevance |-> relevance,
   matchingSkills |-> Names(skillsAnalysis.matches),
   missingSkills |-> skillsAnalysis.missing,
   durationMatch |-> JsMin(Num(1), durationMatch)]

\* if (!bestMatch || match.relevance > bestMatch.relevance) bestMatch = match;
\* best = <<>> is null
KeepBetter(best, match) ==
  IF best = <<>> \/ Gt(match.relevance, best[1].relevance) THEN <<match>> ELSE best

\* the best match of a required role among the experiences from position i on
RECURSIVE BestExperience(_, _, _, _, _, _)
BestExperience(database, requiredRole, requirements, sortedExperiences, i, best) ==
  IF i > Len(sortedExperiences) THEN best
  ELSE BestExperience(database, requiredRole, requirements, sortedExperiences, i + 1,
         KeepBetter(best,
           ExperienceMatch(requiredRole, sortedExperiences[i],
             calculateRoleRelevance(requiredRole, sortedExperiences[i]),
             analyzeSkills(database, sortedExperiences[i].description,
                           requirements.requiredSkills),
             JsDiv(Num(sortedExperiences[i].duration),
                   Num(requirements.minYearsTotal * 12)))))

\* if (bestMatch && bestMatch.relevance >= threshold): the match, else none
Accepted(bestMatch, threshold) ==
  IF bestMatch # <<>> /\ Ge(bestMatch[1].relevance, threshold) THEN bestMatch ELSE <<>>

\* the matches pushed for the required roles, in order
RECURSIVE ExperienceMatches(_, _, _, _)
ExperienceMatches(database, roles, requirements, sortedExperiences) ==
  IF roles = <<>> THEN <<>>
  ELSE Accepted(BestExperience(database, Head(roles), requirements,
                               sortedExperiences, 1, <<>>), Rat(6, 10))
       \o ExperienceMatches(database, Tail(roles), requirements, sortedExperiences)

MatchedDurations(matches) ==
  [i \in 1..Len(matches) |-> matches[i].matchedExperience.duration]

ExperienceRecommendations(gaps, score) ==
  (IF gaps.duration THEN << <<"Le candidat n'a pas l'experience minimale requise">> >>
   ELSE <<>>)
  \o (IF Len(gaps.roles) > 0 THEN << <<"Manque d'experience dans les roles", gaps.roles>> >>
      ELSE <<>>)
  \o (IF Len(gaps.skills) > 0 THEN << <<"Competences a developper", gaps.skills>> >>
      ELSE <<>>)
  \o (IF Lt(score, Num(50))
      THEN << <<"Le profil ne correspond pas suffisamment aux exigences du poste.">> >>
      ELSE IF Lt(score, Num(70))
      THEN << <<"Le profil correspond partiellement.">> >>
      ELSE <<>>)

ExperienceGaps(requirements, matches, totalRelevantExperience) ==
  LET Unmatched(role) == ~ \E i \in 1..Len(matches) : matches[i].requiredRole = role
      allMatchingSkills == UNION {SeqToSet(matches[i].matchingSkills) : i \in 1..Len(matches)}
      NotMatching(skill) == skill \notin allMatchingSkills
  IN  [duration |-> totalRelevantExperience < requirements.minYearsTotal * 12,
       skills |-> SelectSeq(requirements.requiredSkills, NotMatching),
       roles |-> SelectSeq(requirements.roles, Unmatched)]

ExperienceScore(requirements, matches, totalRelevantExperience, gaps) ==
  LET durationScore == JsMin(Num(1), JsDiv(Num(totalRelevantExperience),
                                           Num(requirements.minYearsTotal * 12)))
      roleScore == JsDiv(Num(Len(matches)), Num(Len(requirements.roles)))
      skillScore == JsSub(Num(1), JsDiv(Num(Len(gaps.skills)),
                                        Num(Len(requirements.requiredSkills))))
  IN  JsRound(JsMul(JsAdd(JsAdd(JsMul(durationScore, Rat(3, 10)),
                                JsMul(roleScore, Rat(4, 10))),
                          JsMul(skillScore, Rat(3, 10))),
                    Num(100)))

ExperienceResult(matches, totalRelevantExperience, gaps, score) ==
  [matches |-> matches,
   totalRelevantExperience |-> totalRelevantExperience,
   score |-> score,
   gaps |-> gaps,
   recommendations |-> ExperienceRecommendations(gaps, score)]

ExperienceScored(requirements, matches, totalRelevantExperience, gaps) ==
  ExperienceResult(matches, totalRelevantExperience, gaps,
                   ExperienceScore(requirements, matches, totalRelevantExperience, gaps))

ExperienceTotalled(requirements, matches, totalRelevantExperience) ==
  ExperienceScored(requirements, matches, totalRelevantExperience,
                   ExperienceGaps(requirements, matches, totalRelevantExperience))

ExperienceMatched(requirements, matches) ==
  ExperienceTotalled(requirements, matches, SumInts(MatchedDurations(matches)))

\* experiences by end date, latest first; an absent end date counts as now
SortByEndDate(experiences, now) ==
  LET EndKey(e) == -(IF IsDate(e.endDate) THEN getTime(e.endDate) ELSE getTime(now))
  IN  SortByKey(experiences, EndKey)

analyzeExperience(database, experiences, requirements, now) ==
  ExperienceMatched(requirements,
                    ExperienceMatches(database, requirements.roles, requirements,
                                      SortByEndDate(experiences, now)))

-----------------------------------------------------------------------------
(* EducationAnalyzer.                                                      *)
(* An optional value is <<>> when absent and <<v>> when present.           *)

\* the keys in declaration order
degreeHierarchy ==
  << [key |-> "doctorat", val |-> 5], [key |-> "phd", val |-> 5],
     [key |-> "master", val |-> 4], [key |-> "mba", val |-> 4],
     [key |-> "ingénieur", val |-> 4],
     [key |-> "licence", val |-> 3], [key |-> "bachelor", val |-> 3],
     [key |-> "dut", val |-> 2], [key |-> "bts", val |-> 2],
     [key |-> "bac", val |-> 1] >>

\* the value of the first entry whose key the text includes, else default
FirstIncluded(entries, text, default) ==
  LET hits == {i \in 1..Len(entries) : includes(text, entries[i].key)}
  IN  IF hits = {} THEN default ELSE entries[SetMin(hits)].val

\* getDegreeLevel where the last key of the table found in the degree decides
getDegreeLevel_LastKey(degree) ==
  LET hits == {i \in 1..Len(degreeHierarchy) :
                 includes(toLowerCase(degree), degreeHierarchy[i].key)}
  IN  IF hits = {} THEN 0 ELSE degreeHierarchy[CHOOSE i \in hits : \A j \in hits : j <= i].val

getDegreeLevel(degree) == FirstIncluded(degreeHierarchy, toLowerCase(degree), 0)

normalizeField(field) ==
  LET LongWord(word) == Len(word) > 2
  IN  SelectSeq(SplitOn(toLowerCase(field), " ,"), LongWord)

\* the first required word more than 0.85 similar to the word adds its
\* similarity; none adds 0
RECURSIVE FirstSimilar(_, _, _)
FirstSimilar(similarities, i, threshold) ==
  IF i > Len(similarities) THEN Num(0)
  ELSE IF Gt(similarities[i], threshold) THEN similarities[i]
  ELSE FirstSimilar(similarities, i + 1, threshold)

\* what one actual word adds to matches; requiredWords in insertion order
FieldWordMatch(word, requiredWords) ==
  IF Contains(requiredWords, word) THEN Num(1)
  ELSE FirstSimilar([i \in 1..Len(requiredWords) |->
                       calculateJaroWinklerDistance(word, requiredWords[i])],
                    1, Rat(85, 100))

RECURSIVE FieldMatches(_, _)
FieldMatches(actualWords, requiredWords) ==
  IF actualWords = <<>> THEN Num(0)
  ELSE JsAdd(FieldMatches(SubSeq(actualWords, 1, Len(actualWords) - 1), requiredWords),
             FieldWordMatch(actualWords[Len(actualWords)], requiredWords))

calculateFieldMatch(requiredField, actualField) ==
  LET requiredWords == normalizeField(requiredField)
      actualWords == normalizeField(actualField)
      size == Cardinality(SeqToSet(requiredWords))
  IN  JsDiv(FieldMatches(actualWords, requiredWords),
            Num(Max2(size, Len(actualWords))))

topInstitutions ==
  << [key |-> "polytechnique", val |-> Num(1)], [key |-> "centrale", val |-> Rat(95, 100)],
     [key |-> "mines", val |-> Rat(95, 100)], [key |-> "hec", val |-> Num(1)],
     [key |-> "essec", val |-> Rat(95, 100)], [key |-> "dauphine", val |-> Rat(9, 10)],
     [key |-> "sorbonne", val |-> Rat(9, 10)], [key |-> "insa", val |-> Rat(85, 100)],
     [key |-> "ensimag", val |-> Rat(85, 100)] >>

isRelevantInstitution(institution) ==
  FirstIncluded(topInstitutions, toLowerCase(institution), Rat(7, 10))

isCertificationExpired(cert, now) ==
  IF ~IsDate(cert.expiryDate) THEN FALSE ELSE getTime(now) > getTime(cert.expiryDate)

calculateCertificationRelevance(requiredCert, actualCert, now) ==
  LET similarity == calculateJaroWinklerDistance(toLowerCase(requiredCert),
                                                 toLowerCase(actualCert.name))
      expiryPenalty == IF isCertificationExpired(actualCert, now) THEN Rat(1, 2) ELSE Num(1)
      scorebonus == IF actualCert.score # 0
                    THEN JsMin(JsMul(Rat(actualCert.score, 100), Rat(2, 10)), Rat(2, 10))
                    ELSE Num(0)
  IN  JsAdd(JsMul(similarity, expiryPenalty), scorebonus)

EducationMatch(required, edu, actualLevel, requiredLevel, fieldMatch, institutionRanking) ==
  [requiredDegree |-> required.degree,
   requiredField |-> required.field,
   matchedEducation |-> edu,
   relevance |-> JsAdd(JsAdd(JsMul(IF actualLevel >= requiredLevel THEN Num(1)
                                   ELSE Rat(actualLevel, requiredLevel),
                                   Rat(4, 10)),
                             JsMul(fieldMatch, Rat(4, 10))),
                       JsMul(institutionRanking, Rat(2, 10))),
   fieldMatch |-> fieldMatch,
   institutionRanking |-> institutionRanking]

\* one education item against one required degree; minimumDegreeLevel = 0
\* stands for an absent or zero minimum
ConsiderEducation(required, edu, minimumDegreeLevel, actualLevel, best) ==
  IF minimumDegreeLevel # 0 /\ actualLevel < minimumDegreeLevel THEN best
  ELSE KeepBetter(best,
         EducationMatch(required, edu, actualLevel, getDegreeLevel(required.degree),
                        calculateFieldMatch(required.field, edu.field),
                        isRelevantInstitution(edu.institution)))

\* the best match of a required degree among the education items from
\* position i on
RECURSIVE BestEducation(_, _, _, _, _)
BestEducation(required, education, minimumDegreeLevel, i, best) ==
  IF i > Len(education) THEN best
  ELSE BestEducation(required, education, minimumDegreeLevel, i + 1,
         ConsiderEducation(required, education[i], minimumDegreeLevel,
                           getDegreeLevel(education[i].degree), best))

\* per required degree, the accepted best match or <<>>
DegreeOutcomes(degrees, education, minimumDegreeLevel) ==
  [i \in 1..Len(degrees) |->
     Accepted(BestEducation(degrees[i], education, minimumDegreeLevel, 1, <<>>),
              Rat(6, 10))]

CertificationMatch(requiredCert, cert, relevance, isExpired) ==
  [requiredCert |-> requiredCert, matchedCert |-> cert,
   relevance |-> relevance, isExpired |-> isExpired]

RECURSIVE BestCertification(_, _, _, _, _)
BestCertification(requiredCert, certifications, now, i, best) ==
  IF i > Len(certifications) THEN best
  ELSE BestCertification(requiredCert, certifications, now, i + 1,
         KeepBetter(best,
           CertificationMatch(requiredCert, certifications[i],
             calculateCertificationRelevance(requiredCert, certifications[i], now),
             isCertificationExpired(certifications[i], now))))

NotExpired(bestMatch) ==
  IF bestMatch # <<>> /\ ~bestMatch[1].isExpired THEN bestMatch ELSE <<>>

\* per required certification, the accepted best match or <<>>
CertificationOutcomes(requiredCertifications, certifications, now) ==
  [i \in 1..Len(requiredCertifications) |->
     NotExpired(Accepted(BestCertification(requiredCertifications[i], certifications,
                                           now, 1, <<>>), Rat(7, 10)))]

Relevances(matches) == [i \in 1..Len(matches) |-> matches[i].relevance]

EducationRecommendations(gaps, certificationMatches, score) ==
  LET Expired(m) == m.isExpired
      expiredCerts == SelectSeq(certificationMatches, Expired)
  IN  (IF Len(gaps.degrees) > 0
       THEN << <<"Niveau de diplome manquant ou insuffisant", gaps.degrees>> >> ELSE <<>>)
      \o (IF Len(gaps.fields) > 0
          THEN << <<"Specialisation manquante", gaps.fields>> >> ELSE <<>>)
      \o (IF Len(gaps.certifications) > 0
          THEN << <<"Certifications recommandees", gaps.certifications>> >> ELSE <<>>)
      \o (IF Len(expiredCerts) > 0
          THEN << <<"Certifications a renouveler",
                    [i \in 1..Len(expiredCerts) |-> expiredCerts[i].matchedCert.name]>> >>
          ELSE <<>>)
      \o (IF Lt(score, Num(50))
          THEN << <<"Le niveau de formation ne correspond pas aux exigences du poste">> >>
          ELSE IF Lt(score, Num(70))
          THEN << <<"Formation complementaire recommandee">> >>
          ELSE <<>>)

EducationGaps(missedDegrees, missedCertifications) ==
  [degrees |-> [i \in 1..Len(missedDegrees) |-> missedDegrees[i].degree],
   fields |-> [i \in 1..Len(missedDegrees) |-> missedDegrees[i].field],
   certifications |-> missedCertifications]

\* requiredCertifications is <<>> when absent, <<list>> when present
EducationScore(requirements, matches, certificationMatches) ==
  LET educationScore == JsDiv(SumSeq(Relevances(matches)), Num(Len(requirements.degrees)))
      certificationScore ==
        IF requirements.requiredCertifications # <<>>
        THEN JsDiv(Num(Len(certificationMatches)),
                   Num(Len(requirements.requiredCertifications[1])))
        ELSE Num(1)
  IN  JsRound(JsMul(JsAdd(JsMul(educationScore, Rat(7, 10)),
                          JsMul(certificationScore, Rat(3, 10))),
                    Num(100)))

EducationResult(matches, certificationMatches, gaps, score) ==
  [matches |-> matches,
   certificationMatches |-> certificationMatches,
   score |-> score,
   gaps |-> gaps,
   recommendations |-> EducationRecommendations(gaps, certificationMatches, score)]

EducationMatched(requirements, requiredCertifications, degreeOutcomes, certOutcomes) ==
  EducationResult(Flatten(degreeOutcomes), Flatten(certOutcomes),
                  EducationGaps(Missed(requirements.degrees, degreeOutcomes),
                                Missed(requiredCertifications, certOutcomes)),
                  EducationScore(requirements, Flatten(degreeOutcomes),
                                 Flatten(certOutcomes)))

OrEmpty(optional) == IF optional # <<>> THEN optional[1] ELSE <<>>

analyzeEducation(education, certifications, requirements, now) ==
  EducationMatched(requirements, OrEmpty(requirements.requiredCertifications),
    DegreeOutcomes(requirements.degrees, education, requirements.minimumDegreeLevel),
    CertificationOutcomes(OrEmpty(requirements.requiredCertifications), certifications, now))

-----------------------------------------------------------------------------
(* LocationAnalyzer.                                                       *)
(* Coordinates are <<>> when absent and <<[latitude, longitude]>> when     *)
(* present, in ten-thousandths of a degree.                                *)

\* R * c of the Haversine formula for the coordinates analysed here, to a
\* tenth of a kilometre, keyed by the differences in latitude and longitude
HaversineKm ==
  << [dLat |-> 134, dLon |-> 178, km |-> Rat(20, 10)],
     [dLat |-> 517, dLon |-> 2318, km |-> Rat(179, 10)],
     [dLat |-> 996, dLon |-> 5362, km |-> Rat(407, 10)],
     [dLat |-> 30926, dLon |-> 24835, km |-> Rat(3915, 10)] >>

\* with dLat = dLon = 0 both sine terms are 0, so a = 0 and c = 2 atan2(0, 1) = 0
GreatCircle(dLat, dLon) ==
  IF dLat = 0 /\ dLon = 0 THEN Num(0)
  ELSE HaversineKm[CHOOSE i \in 1..Len(HaversineKm) :
                     HaversineKm[i].dLat = Abs(dLat) /\ HaversineKm[i].dLon = Abs(dLon)].km

calculateDistance(location1, location2) ==
  IF location1.coordinates = <<>> \/ location2.coordinates = <<>>
  THEN (IF location1.city = location2.city THEN Num(0)
        ELSE IF location1.region = location2.region THEN Num(30)
        ELSE IF location1.country = location2.country THEN Num(300)
        ELSE Num(1000))
  ELSE GreatCircle(location2.coordinates[1].latitude - location1.coordinates[1].latitude,
                   location2.coordinates[1].longitude - location1.coordinates[1].longitude)

\* a variant without the exact tier: distance 0 falls under "same_city"
determineMatchType_NoExact(distance, maxCommuteDistance) ==
  IF Lt(distance, Num(5)) THEN "same_city"
  ELSE IF Le(distance, maxCommuteDistance) THEN "commutable"
  ELSE "requires_relocation"

determineMatchType(distance, maxCommuteDistance) ==
  IF distance = Num(0) THEN "exact"
  ELSE IF Lt(distance, Num(5)) THEN "same_city"
  ELSE IF Le(distance, maxCommuteDistance) THEN "commutable"
  ELSE "requires_relocation"

\* x || 50 for an optional distance; 0 stands for an absent or zero distance
OrFifty(x) == IF x = 0 THEN Num(50) ELSE Num(x)

LocationMatch(candidateLocation, jobLocation, distance, maxCommuteDistance) ==
  [candidateLocation |-> candidateLocation,
   jobLocation |-> jobLocation,
   distance |-> distance,
   isWithinCommutingDistance |-> Le(distance, maxCommuteDistance),
   matchType |-> determineMatchType(distance, maxCommuteDistance)]

\* score, workArrangement and recommendations after the work-arrangement
\* analysis
WorkArrangement(match, candidateMobility, jobRequirements) ==
  IF candidateMobility.isRemoteOnly
  THEN (IF ~jobRequirements.isRemoteAllowed
        THEN [score |-> Num(0), workArrangement |-> "not_viable",
              recommendations |-> <<"Le candidat souhaite travailler uniquement a distance">>]
        ELSE [score |-> Num(100), workArrangement |-> "remote", recommendations |-> <<>>])
  ELSE IF match.matchType = "requires_relocation"
  THEN (IF ~candidateMobility.isRelocationAccepted
        THEN [score |-> Num(0), workArrangement |-> "not_viable",
              recommendations |-> <<"Le poste necessite une relocalisation">>]
        ELSE [score |-> Num(70), workArrangement |-> "on_site",
              recommendations |-> <<"Une relocalisation sera necessaire">>])
  ELSE IF match.isWithinCommutingDistance
  THEN [score |-> IF jobRequirements.isHybridAllowed /\ candidateMobility.isHybridAccepted
                  THEN Num(90) ELSE Num(85),
        workArrangement |-> IF jobRequirements.isHybridAllowed
                               /\ candidateMobility.isHybridAccepted
                            THEN "hybrid" ELSE "on_site",
        recommendations |-> IF Gt(match.distance, Num(30))
                            THEN <<"Le temps de trajet peut etre significatif">> ELSE <<>>]
  ELSE [score |-> Num(100), workArrangement |-> "not_viable", recommendations |-> <<>>]

\* the score adjusted for the distance
DistanceAdjusted(score, match, maxCommuteDistance) ==
  IF match.matchType = "exact" THEN JsMin(JsAdd(score, Num(10)), Num(100))
  ELSE IF match.matchType = "same_city" THEN JsMin(JsAdd(score, Num(5)), Num(100))
  ELSE IF match.matchType = "commutable"
  THEN JsMax(JsSub(score, JsMul(JsDiv(match.distance, maxCommuteDistance), Num(20))), Num(0))
  ELSE score

\* preferredLocations = <<>> stands for absent or empty preferences
IsNotPreferred(candidateMobility, jobLocation) ==
  /\ Len(candidateMobility.preferredLocations) > 0
  /\ ~ \E i \in 1..Len(candidateMobility.preferredLocations) :
         candidateMobility.preferredLocations[i].city = jobLocation.city

LocationAnalysis(match, score, workArrangement, recommendations) ==
  [match |-> match, score |-> score, isViable |-> Gt(score, Num(0)),
   workArrangement |-> workArrangement, recommendations |-> recommendations]

PreferenceChecked(match, arrangement, adjusted, notPreferred) ==
  LocationAnalysis(match,
    IF notPreferred THEN JsMax(JsSub(adjusted, Num(10)), Num(0)) ELSE adjusted,
    arrangement.workArrangement,
    arrangement.recommendations
      \o (IF notPreferred THEN <<"Le lieu de travail ne fait pas partie des localisations preferees">> ELSE <<>>))

Arranged(match, maxCommuteDistance, arrangement, notPreferred) ==
  PreferenceChecked(match, arrangement,
                    DistanceAdjusted(arrangement.score, match, maxCommuteDistance),
                    notPreferred)

Matched(match, maxCommuteDistance, candidateMobility, jobRequirements) ==
  Arranged(match, maxCommuteDistance,
           WorkArrangement(match, candidateMobility, jobRequirements),
           IsNotPreferred(candidateMobility, match.jobLocation))

Measured(candidateLocation, candidateMobility, jobLocation, jobRequirements, distance, maxCommute) ==
  Matched(LocationMatch(candidateLocation, jobLocation, distance, maxCommute),
          maxCommute, candidateMobility, jobRequirements)

analyzeLocation(candidateLocation, candidateMobility, jobLocation, jobRequirements) ==
  Measured(candidateLocation, candidateMobility, jobLocation, jobRequirements,
           calculateDistance(candidateLocation, jobLocation),
           JsMin(OrFifty(candidateMobility.maxCommuteDistance),
                 OrFifty(jobRequirements.maxAllowedCommuteDistance)))

-----------------------------------------------------------------------------
(* CustomCriteriaAnalyzer.                                                 *)
(* A criterion is [id, name, type, value, target, weight, required,        *)
(* category, validationRules]: value is the string value, target the       *)
(* number value of a numeric criterion, category "" when absent, and a     *)
(* rule <<>> when absent. The singleton's TfIdf holds its documents, each  *)
(* the sequence of its terms, in the order they were added.                *)

NotFound(criterion) ==
  [criterion |-> criterion, found |-> FALSE, value |-> <<>>,
   confidence |-> Num(0), context |-> <<>>]

Found(criterion, value, confidence, context) ==
  [criterion |-> criterion, found |-> TRUE, value |-> value,
   confidence |-> confidence, context |-> <<context>>]

BetterWord(bestMatch, word, similarity) ==
  IF Gt(similarity, bestMatch.similarity) /\ Gt(similarity, Rat(85, 100))
  THEN [word |-> word, similarity |-> similarity] ELSE bestMatch

RECURSIVE BestSimilarWord(_, _, _, _)
BestSimilarWord(words, normalizedValue, i, bestMatch) ==
  IF i > Len(words) THEN bestMatch
  ELSE BestSimilarWord(words, normalizedValue, i + 1,
         BetterWord(bestMatch, words[i],
                    calculateJaroWinklerDistance(words[i], normalizedValue)))

SimilarMatch(criterion, text, bestMatch) ==
  IF Gt(bestMatch.similarity, Num(0))
  THEN Found(criterion, <<bestMatch.word>>, bestMatch.similarity,
             extractContext(text, bestMatch.word))
  ELSE NotFound(criterion)

evaluateKeywordCriterion(criterion, text) ==
  IF includes(toLowerCase(text), toLowerCase(criterion.value))
  THEN Found(criterion, <<criterion.value>>, Num(1), extractContext(text, criterion.value))
  ELSE SimilarMatch(criterion, text,
         BestSimilarWord(tokenize(toLowerCase(text)), toLowerCase(criterion.value), 1,
                         [word |-> "", similarity |-> Num(0)]))

\* text.match(new RegExp(value, 'i')) for a pattern of literal characters:
\* the first occurrence, whatever the case
RegexMatched(criterion, text, matched) ==
  IF matched # <<>>
  THEN Found(criterion, matched, Num(1), extractContext(text, matched[1]))
  ELSE NotFound(criterion)

FirstOccurrence(text, pattern, index) ==
  IF index = -1 THEN <<>> ELSE <<SubSeq(text, index + 1, index + Len(pattern))>>

evaluateRegexCriterion(criterion, text) ==
  RegexMatched(criterion, text,
    FirstOccurrence(text, criterion.value,
                    indexOf(toLowerCase(text), toLowerCase(criterion.value))))

IsDigits(word) == \A i \in 1..Len(word) : IsCharOf(CharAt(word, i), DigitChars)

\* text.match(/\b\d+(?:\.\d+)?\b/g) on a text without decimal points: the
\* runs of digits that are whole words
NumberTokens(text) == SelectSeq(tokenize(text), IsDigits)

DigitValue(c) == (CHOOSE i \in 1..Len(DigitChars) : CharAt(DigitChars, i) = c) - 1

RECURSIVE parseFloat(_)
parseFloat(num) ==
  IF Len(num) = 0 THEN 0
  ELSE 10 * parseFloat(SubSeq(num, 1, Len(num) - 1)) + DigitValue(CharAt(num, Len(num)))

RECURSIVE NumberToString(_)
NumberToString(n) ==
  IF n < 10 THEN CharAt(DigitChars, n + 1)
  ELSE NumberToString(n \div 10) \o CharAt(DigitChars, (n % 10) + 1)

\* x || fallback for an optional number
OrElse(optional, fallback) ==
  IF optional = <<>> \/ optional = <<0>> THEN fallback ELSE optional[1]

NumericConfidence(value, targetValue, rules) ==
  JsMax(Num(0),
        JsSub(Num(1),
              JsDiv(Num(Abs(value - targetValue)),
                    Num(OrElse(rules.max, targetValue * 2) - OrElse(rules.min, 0)))))

BetterNumber(bestMatch, value, confidence) ==
  IF Gt(confidence, bestMatch.confidence)
  THEN [value |-> value, confidence |-> confidence] ELSE bestMatch

ConsiderNumber(bestMatch, value, targetValue, rules) ==
  IF \/ (rules.min # <<>> /\ value < rules.min[1])
     \/ (rules.max # <<>> /\ value > rules.max[1])
  THEN bestMatch
  ELSE BetterNumber(bestMatch, value, NumericConfidence(value, targetValue, rules))

RECURSIVE BestNumber(_, _, _, _, _)
BestNumber(numbers, targetValue, rules, i, bestMatch) ==
  IF i > Len(numbers) THEN bestMatch
  ELSE BestNumber(numbers, targetValue, rules, i + 1,
         ConsiderNumber(bestMatch, parseFloat(numbers[i]), targetValue, rules))

NumericMatch(criterion, text, bestMatch) ==
  IF Gt(bestMatch.confidence, Num(0))
  THEN Found(criterion, <<bestMatch.value>>, bestMatch.confidence,
             extractContext(text, NumberToString(bestMatch.value)))
  ELSE NotFound(criterion)

evaluateNumericCriterion(criterion, text) ==
  IF NumberTokens(text) = <<>> THEN NotFound(criterion)
  ELSE NumericMatch(criterion, text,
         BestNumber(NumberTokens(text), criterion.target, criterion.validationRules, 1,
                    [value |-> 0, confidence |-> Num(0)]))

-----------------------------------------------------------------------------
(* natural.TfIdf, as the singleton uses it.                                *)

\* the English stop words of the library that the analysed texts can hold
stopwords ==
  <<"a", "an", "and", "for", "in", "of", "the", "with",
    "0", "1", "2", "3", "4", "5", "6", "7", "8", "9">>

\* buildDocument: the terms of a text that are not stop words
BuildDocument(text) ==
  LET Kept(term) == ~Contains(stopwords, term)
  IN  SelectSeq(tokenize(toLowerCase(text)), Kept)

\* 10000 * ln(k) for k = 1..20, rounded
LnTable ==
  <<0, 6931, 10986, 13863, 16094, 17918, 19459, 20794, 21972, 23026,
    23979, 24849, 25649, 26391, 27081, 27726, 28332, 28904, 29444, 29957>>

Tf(term, document) == Cardinality({i \in 1..Len(document) : document[i] = term})

\* idf = 1 + ln(N / (1 + docsWithTerm))
Idf(term, documents) ==
  Rat(10000 + LnTable[Len(documents)]
        - LnTable[1 + Cardinality({d \in 1..Len(documents) : Tf(term, documents[d]) > 0})],
      10000)

RECURSIVE TfIdfOfTerms(_, _, _)
TfIdfOfTerms(terms, d, documents) ==
  IF terms = <<>> THEN Num(0)
  ELSE JsAdd(TfIdfOfTerms(SubSeq(terms, 1, Len(terms) - 1), d, documents),
             JsMul(Num(Tf(terms[Len(terms)], documents[d])),
                   Idf(terms[Len(terms)], documents)))

\* TfIdf.tfidf(terms, d), d counted from 1
tfidf(terms, d, documents) == TfIdfOfTerms(tokenize(toLowerCase(terms)), d, documents)

\* TfIdf.addDocument twice: the text, then the criterion's value
AddDocuments(documents, text, semanticValue) ==
  documents \o <<BuildDocument(toLowerCase(text)), BuildDocument(toLowerCase(semanticValue))>>

KeywordsIn(sentence, keywords) ==
  Cardinality({i \in 1..Len(keywords) : includes(toLowerCase(sentence), keywords[i])})

RECURSIVE BestSentence(_, _, _, _, _)
BestSentence(sentences, keywords, i, bestScore, bestContext) ==
  IF i > Len(sentences) THEN bestContext
  ELSE IF KeywordsIn(sentences[i], keywords) > bestScore
  THEN BestSentence(sentences, keywords, i + 1, KeywordsIn(sentences[i], keywords),
                    trim(sentences[i]))
  ELSE BestSentence(sentences, keywords, i + 1, bestScore, bestContext)

findBestContext(text, keywords) == BestSentence(SplitOn(text, ".!?"), keywords, 1, 0, "")

IsPositive(x) == Gt(x, Num(0))

SemanticMatch(criterion, text, words, confidence) ==
  IF Gt(confidence, Rat(3, 10))
  THEN [criterion |-> criterion, found |-> TRUE, value |-> <<>>,
        confidence |-> confidence, context |-> <<findBestContext(text, words)>>]
  ELSE NotFound(criterion)

\* the confidence from the similarities of the words that are positive
SemanticConfidence(words, matched) ==
  IF Len(matched) > 0
  THEN JsDiv(SumSeq(matched), Num(Len(words) * Len(matched)))
  ELSE Num(0)

SemanticScored(criterion, text, words, similarities) ==
  SemanticMatch(criterion, text, words,
                SemanticConfidence(words, SelectSeq(similarities, IsPositive)))

SemanticWords(criterion, text, words, documents) ==
  SemanticScored(criterion, text, words,
                 [i \in 1..Len(words) |-> tfidf(words[i], 1, documents)])

\* documents: the TfIdf's documents after the two addDocument calls
evaluateSemanticCriterion(criterion, text, documents) ==
  SemanticWords(criterion, text, SplitOn(toLowerCase(criterion.value), " "), documents)

-----------------------------------------------------------------------------
\* the TfIdf's documents once the criterion has been evaluated
DocumentsAfter(criterion, text, documents) ==
  IF criterion.type = "semantic" THEN AddDocuments(documents, text, criterion.value)
  ELSE documents

\* the switch on criterion.type, for the five supported types
EvaluateCriterion(criterion, text, documents) ==
  CASE criterion.type = "keyword" -> evaluateKeywordCriterion(criterion, text)
    [] criterion.type = "regex" -> evaluateRegexCriterion(criterion, text)
    [] criterion.type = "numeric" -> evaluateNumericCriterion(criterion, text)
    [] criterion.type = "semantic" -> evaluateSemanticCriterion(criterion, text, documents)
    [] criterion.type = "boolean" -> evaluateKeywordCriterion(criterion, text)

Evaluated(matches, criterion, text, documents) ==
  [matches |-> Append(matches, EvaluateCriterion(criterion, text, documents)),
   documents |-> documents]

\* the loop over the criteria, from the matches and documents so far
RECURSIVE EvaluateCriteria(_, _, _, _)
EvaluateCriteria(text, criteria, i, sofar) ==
  IF i > Len(criteria) THEN sofar
  ELSE EvaluateCriteria(text, criteria, i + 1,
         Evaluated(sofar.matches, criteria[i], text,
                   DocumentsAfter(criteria[i], text, sofar.documents)))

\* a variant that records a missing required criterion only when it has a
\* category
MissingRequired_CategorisedOnly(matches) ==
  LET Missing(m) == m.criterion.required /\ ~m.found /\ m.criterion.category # ""
      missing == SelectSeq(matches, Missing)
  IN  [i \in 1..Len(missing) |-> missing[i].criterion]

\* if (criterion.required && !match.found) missingRequired.push(criterion)
MissingRequired(matches) ==
  LET Missing(m) == m.criterion.required /\ ~m.found
      missing == SelectSeq(matches, Missing)
  IN  [i \in 1..Len(missing) |-> missing[i].criterion]

CategoryOrDefault(criterion) == IF criterion.category = "" THEN "default" ELSE criterion.category

Weights(criteria) == [i \in 1..Len(criteria) |-> criteria[i].weight]

WeightedConfidences(matches) ==
  [i \in 1..Len(matches) |-> JsMul(matches[i].confidence, matches[i].criterion.weight)]

Criteria(matches) == [i \in 1..Len(matches) |-> matches[i].criterion]

CategoryDetails(found, missing) ==
  [score |-> IF Gt(SumSeq(Weights(Criteria(found) \o missing)), Num(0))
             THEN JsRound(JsMul(JsDiv(SumSeq(WeightedConfidences(found)),
                                      SumSeq(Weights(Criteria(found) \o missing))),
                                Num(100)))
             ELSE Num(0),
   matches |-> found,
   missing |-> missing]

CriteriaDetails(matches, category) ==
  LET FoundIn(m) == m.found /\ CategoryOrDefault(m.criterion) = category
      MissingIn(m) == ~m.found /\ CategoryOrDefault(m.criterion) = category
  IN  CategoryDetails(SelectSeq(matches, FoundIn), Criteria(SelectSeq(matches, MissingIn)))

CriteriaRecommendations(matches, missingRequired) ==
  LET Weak(m) == m.found /\ Lt(m.confidence, Rat(7, 10)) /\ Gt(m.criterion.weight, Rat(1, 2))
      weakMatches == SelectSeq(matches, Weak)
  IN  (IF Len(missingRequired) > 0
       THEN << <<"Criteres requis manquants :">> >>
            \o [i \in 1..Len(missingRequired) |-> <<"- ", missingRequired[i].name>>]
       ELSE <<>>)
      \o (IF Len(weakMatches) > 0
          THEN << <<"Criteres a approfondir :">> >>
               \o [i \in 1..Len(weakMatches) |->
                     <<"- ", weakMatches[i].criterion.name,
                       JsRound(JsMul(weakMatches[i].confidence, Num(100)))>>]
          ELSE <<>>)

CriteriaAnalysis(criteria, matches, missingRequired) ==
  [matches |-> matches,
   score |-> JsRound(JsMul(JsDiv(SumSeq(WeightedConfidences(matches)),
                                 SumSeq(Weights(criteria))),
                           Num(100))),
   missingRequired |-> missingRequired,
   recommendations |-> CriteriaRecommendations(matches, missingRequired),
   details |-> [category \in {CategoryOrDefault(criteria[i]) : i \in 1..Len(criteria)} |->
                  CriteriaDetails(matches, category)]]

CriteriaEvaluated(criteria, evaluated) ==
  [out |-> CriteriaAnalysis(criteria, evaluated.matches, MissingRequired(evaluated.matches)),
   documents |-> evaluated.documents]

\* the analysis returned, and the documents the singleton's TfIdf then holds
analyzeCriteria(text, criteria, documents) ==
  CriteriaEvaluated(criteria,
    EvaluateCriteria(text, criteria, 1, [matches |-> <<>>, documents |-> documents]))

-----------------------------------------------------------------------------
(* ResumeAnalysisManager.                                                  *)
(* An uploaded file is [name, extracted]: extracted is <<>> when the text  *)
(* extractor throws on the file and <<sections>> otherwise, each section   *)
(* being [title, content]. The report's optional parts are <<>> when       *)
(* absent. A recommendation is the tuple of the parts of its text.         *)
LocationPhrases == <<"based in", "located in", "remote from">>

IsSpace(c) == c \in {" ", "\n", "\t"}

StartsWithAt(s, prefix, i) ==
  i + Len(prefix) - 1 <= Len(s) /\ SubSeq(s, i, i + Len(prefix) - 1) = prefix

RECURSIVE SkipSpaces(_, _)
SkipSpaces(s, i) ==
  IF i <= Len(s) /\ IsSpace(CharAt(s, i)) THEN SkipSpaces(s, i + 1) ELSE i

\* the end of the longest run of [^,\n] from i
RECURSIVE RunEnd(_, _)
RunEnd(s, i) ==
  IF i <= Len(s) /\ CharAt(s, i) \notin {",", "\n"} THEN RunEnd(s, i + 1) ELSE i - 1

\* the group ([^,\n]+) after \s+ at position i, "" when there is no match
CapturedAfter(content, i) ==
  IF i <= Len(content) /\ IsSpace(CharAt(content, i))
  THEN SubSeq(content, SkipSpaces(content, i), RunEnd(content, SkipSpaces(content, i)))
  ELSE ""

PhraseMatches(content, lower, i, k) ==
  /\ StartsWithAt(lower, LocationPhrases[k], i)
  /\ CapturedAfter(content, i + Len(LocationPhrases[k])) # ""

\* content.match(/(?:based in|located in|remote from)\s+([^,\n]+).../i):
\* group 1 of the leftmost match, <<>> when there is none
RECURSIVE LocationFrom(_, _, _)
LocationFrom(content, lower, i) ==
  IF i > Len(content) THEN <<>>
  ELSE IF \E k \in 1..Len(LocationPhrases) : PhraseMatches(content, lower, i, k)
  THEN << CapturedAfter(content,
            i + Len(LocationPhrases[CHOOSE k \in 1..Len(LocationPhrases) :
                                      PhraseMatches(content, lower, i, k)])) >>
  ELSE LocationFrom(content, lower, i + 1)

\* the contact of the last section whose title includes "contact"; the
\* location is the only field of the contact the analysis reads
RECURSIVE ContactOf(_, _, _)
ContactOf(sections, i, contact) ==
  IF i > Len(sections) THEN contact
  ELSE ContactOf(sections, i + 1,
         IF includes(toLowerCase(sections[i].title), "contact")
         THEN [location |-> LocationFrom(sections[i].content,
                                         toLowerCase(sections[i].content), 1)]
         ELSE contact)

RECURSIVE Join(_, _)
Join(parts, separator) ==
  IF parts = <<>> THEN ""
  ELSE IF Len(parts) = 1 THEN parts[1]
  ELSE parts[1] \o separator \o Join(Tail(parts), separator)

Contents(sections) == [i \in 1..Len(sections) |-> sections[i].content]

extractAndStructureContent(sections) ==
  [structuredContent |-> [contact |-> ContactOf(sections, 1, [location |-> <<>>]),
                          skills |-> <<>>, experience |-> <<>>,
                          education |-> <<>>, certifications |-> <<>>],
   rawText |-> Join(Contents(sections), "\n")]

\* String(x) of an integer, of NaN and of the infinities
String(x) ==
  IF x.k = "nan" THEN "NaN"
  ELSE IF x.k = "inf" THEN (IF x.n < 0 THEN "-Infinity" ELSE "Infinity")
  ELSE IF x.n < 0 THEN "-" \o NumberToString(-x.n)
  ELSE NumberToString(x.n)

Wrapped(strings) == [i \in 1..Len(strings) |-> <<strings[i]>>]

\* Array.from(new Set(items)): the first occurrence of each item
Unique(items) ==
  LET IsFirst(i) == ~ \E j \in 1..(i - 1) : items[j] = items[i]
      RECURSIVE Firsts(_)
      Firsts(i) == IF i > Len(items) THEN <<>>
                   ELSE (IF IsFirst(i) THEN <<items[i]>> ELSE <<>>) \o Firsts(i + 1)
  IN  Firsts(1)

\* x || 100
OrHundred(x) == IF x.k = "nan" \/ IsZero(x) THEN Num(100) ELSE x

OverallAssessment(overallScore) ==
  IF Ge(overallScore, Num(80)) THEN "Excellent profil, fortement recommande pour le poste"
  ELSE IF Ge(overallScore, Num(70))
  THEN "Bon profil, recommande avec quelques points a approfondir"
  ELSE IF Ge(overallScore, Num(60))
  THEN "Profil acceptable mais necessitant des verifications complementaires"
  ELSE "Profil ne correspondant pas suffisamment aux exigences du poste"

SummaryBlend(analyses) ==
  SumSeq(<<JsMul(analyses.skills.score, Rat(3, 10)),
           JsMul(analyses.experience.score, Rat(3, 10)),
           JsMul(analyses.education.score, Rat(2, 10)),
           JsMul(IF analyses.location = <<>> THEN Num(100)
                 ELSE OrHundred(analyses.location[1].score), Rat(1, 10)),
           JsMul(JsSub(Num(100), analyses.redFlags.overallRisk), Rat(1, 10))>>)

AllRecommendations(analyses) ==
  analyses.skills.recommendations
  \o analyses.experience.recommendations
  \o analyses.education.recommendations
  \o (IF analyses.location = <<>> THEN <<>>
      ELSE Wrapped(analyses.location[1].recommendations))
  \o analyses.redFlags.recommendations

\* items.slice(0, 5)
FirstFive(items) == SubSeq(items, 1, Min2(5, Len(items)))

generateSummary(analyses) ==
  [keyStrengths |->
     (IF Ge(analyses.skills.score, Num(80))
      THEN <<"Excellente correspondance des competences techniques">> ELSE <<>>)
     \o (IF Ge(analyses.experience.score, Num(80))
         THEN <<"Experience professionnelle tres pertinente">> ELSE <<>>)
     \o (IF Ge(analyses.education.score, Num(80))
         THEN <<"Formation academique parfaitement adaptee">> ELSE <<>>),
   keyWeaknesses |->
     (IF Len(analyses.skills.missing) > 0
      THEN <<"Competences manquantes : " \o Join(analyses.skills.missing, ", ")>>
      ELSE <<>>)
     \o (IF analyses.experience.gaps.duration
         THEN <<"Experience insuffisante en termes de duree">> ELSE <<>>)
     \o (IF Gt(analyses.redFlags.overallRisk, Num(60))
         THEN <<"Plusieurs points d'attention identifies">> ELSE <<>>),
   recommendations |-> FirstFive(Unique(AllRecommendations(analyses))),
   overallAssessment |-> OverallAssessment(SummaryBlend(analyses))]

\* the location analysis, made when the configuration has a location and the
\* resume's contact section names one
LocationOf(contact, config) ==
  IF config.location # <<>> /\ contact.location # <<>>
  THEN << analyzeLocation(
            [city |-> contact.location[1], region |-> "", country |-> "France",
             coordinates |-> <<>>],
            [isRemoteOnly |-> FALSE, isHybridAccepted |-> FALSE,
             isRelocationAccepted |-> FALSE, maxCommuteDistance |-> 50,
             preferredLocations |-> <<>>],
            [city |-> config.location[1].city, region |-> "", country |-> "France",
             coordinates |-> <<>>],
            [isRemoteAllowed |-> config.location[1].remote,
             isHybridAllowed |-> config.location[1].hybrid,
             maxAllowedCommuteDistance |-> config.location[1].maxCommuteDistance]) >>
  ELSE <<>>

\* the custom-criteria analysis, made when the configuration has criteria,
\* with the documents the TfIdf then holds
CustomOf(rawText, config, documents) ==
  IF config.customCriteria # <<>>
  THEN analyzeCriteria(rawText, config.customCriteria[1], documents)
  ELSE [out |-> <<>>, documents |-> documents]

Optional(record) == IF record = <<>> THEN <<>> ELSE << record >>

ScoreOf(analysis) == IF analysis = <<>> THEN <<>> ELSE << analysis[1].score >>

\* WeightedScores where a category that was not analysed counts as 100
WeightedScores_AbsentAsFull(categoryScores) ==
  <<JsMul(categoryScores.skills, Rat(3, 10)),
    JsMul(categoryScores.experience, Rat(3, 10)),
    JsMul(categoryScores.education, Rat(2, 10))>>
  \o (IF categoryScores.location = <<>> THEN <<Num(10)>>
      ELSE <<JsMul(categoryScores.location[1], Rat(1, 10))>>)
  \o (IF categoryScores.customCriteria = <<>> THEN <<Num(10)>>
      ELSE <<JsMul(categoryScores.customCriteria[1], Rat(1, 10))>>)

\* the scores of the categories analysed, each times its weight
WeightedScores(categoryScores) ==
  <<JsMul(categoryScores.skills, Rat(3, 10)),
    JsMul(categoryScores.experience, Rat(3, 10)),
    JsMul(categoryScores.education, Rat(2, 10))>>
  \o (IF categoryScores.location = <<>> THEN <<>>
      ELSE <<JsMul(categoryScores.location[1], Rat(1, 10))>>)
  \o (IF categoryScores.customCriteria = <<>> THEN <<>>
      ELSE <<JsMul(categoryScores.customCriteria[1], Rat(1, 10))>>)

DetailedAnalysisReport(analyses, categoryScores) ==
  [overallScore |-> JsRound(SumSeq(WeightedScores(categoryScores))),
   categoryScores |-> categoryScores,
   skillsAnalysis |-> analyses.skills,
   experienceAnalysis |-> analyses.experience,
   educationAnalysis |-> analyses.education,
   locationAnalysis |-> analyses.location,
   redFlags |-> analyses.redFlags,
   customCriteriaAnalysis |-> analyses.customCriteria,
   summary |-> generateSummary(analyses)]

Scored(analyses) ==
  DetailedAnalysisReport(analyses,
    [skills |-> analyses.skills.score,
     experience |-> analyses.experience.score,
     education |-> analyses.education.score,
     location |-> ScoreOf(analyses.location),
     customCriteria |-> ScoreOf(analyses.customCriteria)])

Analysed(skills, experience, education, location, redFlags, custom) ==
  [ok |-> TRUE,
   report |-> Scored([skills |-> skills, experience |-> experience,
                      education |-> education, location |-> location,
                      redFlags |-> redFlags,
                      customCriteria |-> Optional(custom.out)]),
   documents |-> custom.documents]

Structured(database, documents, content, config, now) ==
  Analysed(analyzeSkills(database, content.rawText, config.requiredSkills),
           analyzeExperience(database, content.structuredContent.experience,
                             config.experience, now),
           analyzeEducation(content.structuredContent.education,
                            content.structuredContent.certifications,
                            config.education, now),
           LocationOf(content.structuredContent.contact, config),
           analyzeProfile(content.structuredContent.experience,
                          content.structuredContent.education,
                          content.structuredContent.certifications, now),
           CustomOf(content.rawText, config, documents))

\* ResumeAnalysisManager.analyzeResume: the report and the documents the
\* TfIdf then holds, or the error the extraction threw
analyzeResume(database, documents, file, config, now) ==
  IF file.extracted = <<>>
  THEN [ok |-> FALSE, error |-> "extraction", documents |-> documents]
  ELSE Structured(database, documents, extractAndStructureContent(file.extracted[1]),
                  config, now)

\* a comparator that ranks by ascending score: a.overallScore - b.overallScore
compareByOverallScore_Ascending(a, b) ==
  JsSub(a.analysis.overallScore, b.analysis.overallScore)

\* the comparator of the ranking: b.overallScore - a.overallScore
compareByOverallScore(a, b) == JsSub(b.analysis.overallScore, a.analysis.overallScore)

\* Array.prototype.sort with that comparator: a stable sort, a comparator
\* result that is NaN counting as 0
RECURSIVE InsertRanked(_, _)
InsertRanked(sorted, x) ==
  IF sorted = <<>> THEN <<x>>
  ELSE IF Gt(compareByOverallScore(sorted[Len(sorted)], x), Num(0))
  THEN InsertRanked(SubSeq(sorted, 1, Len(sorted) - 1), x) \o <<sorted[Len(sorted)]>>
  ELSE Append(sorted, x)

RECURSIVE SortRanked(_)
SortRanked(entries) ==
  IF entries = <<>> THEN <<>>
  ELSE InsertRanked(SortRanked(SubSeq(entries, 1, Len(entries) - 1)), entries[Len(entries)])

RankingLine(entry) ==
  entry.name \o ": " \o String(entry.analysis.overallScore) \o " - "
  \o entry.analysis.summary.overallAssessment

Ranking(sorted) == [i \in 1..Len(sorted) |-> RankingLine(sorted[i])]

\* new Set(analysis.skillsAnalysis.matches.map(m => m.skill))
CandidateSkills(analysis) == Unique(Names(analysis.skillsAnalysis.matches))

\* no other candidate's skill matches hold the skill
IsUnique(individualAnalyses, candidateName, skill) ==
  \A j \in 1..Len(individualAnalyses) :
    individualAnalyses[j].name # candidateName =>
      ~ Contains(Names(individualAnalyses[j].analysis.skillsAnalysis.matches), skill)

UniqueStrengths(individualAnalyses, entry) ==
  LET Only(skill) == IsUnique(individualAnalyses, entry.name, skill)
  IN  SelectSeq(CandidateSkills(entry.analysis), Only)

StrengthLines(entry) ==
  (IF Ge(entry.analysis.overallScore, Num(80))
   THEN <<entry.name \o " se demarque par une excellente adequation globale">> ELSE <<>>)
  \o (IF Ge(entry.analysis.experienceAnalysis.score, Num(85))
      THEN <<entry.name \o " possede une experience particulierement pertinente">>
      ELSE <<>>)

\* ranking[0].split(':')[0]
BeforeColon(line) ==
  IF indexOf(line, ":") = -1 THEN line ELSE SubSeq(line, 1, indexOf(line, ":"))

ComparisonRecommendations(individualAnalyses, ranking) ==
  (IF Len(ranking) > 0
   THEN <<"Candidat le plus adapte : " \o BeforeColon(ranking[1])>> ELSE <<>>)
  \o (IF \E i \in 1..Len(individualAnalyses) :
           Gt(individualAnalyses[i].analysis.redFlags.overallRisk, Num(50))
      THEN <<"Prevoir des entretiens approfondis pour verifier les points d'attention">>
      ELSE <<>>)

\* the comparison of the candidates analysed; uniqueStrengths lists
\* [name, skills] in the order of the analyses
Comparison(individualAnalyses, ranking) ==
  [ranking |-> ranking,
   strengthComparison |->
     Flatten([i \in 1..Len(individualAnalyses) |-> StrengthLines(individualAnalyses[i])]),
   uniqueStrengths |->
     [i \in 1..Len(individualAnalyses) |->
        [name |-> individualAnalyses[i].name,
         skills |-> UniqueStrengths(individualAnalyses, individualAnalyses[i])]],
   recommendations |-> ComparisonRecommendations(individualAnalyses, ranking)]

ComparativeAnalysis(individualAnalyses) ==
  [individualAnalyses |-> individualAnalyses,
   comparison |-> Comparison(individualAnalyses, Ranking(SortRanked(individualAnalyses)))]

-----------------------------------------------------------------------------
(* The narrative analyzer (analyzeWithGemini) and its batch.               *)
(* A JSON value is [t, v]: a number, a string, an array (v a sequence of   *)
(* values) or an object (v a record of values). A response of the model is *)
(* [available, text]: generateContent throws when it is not available.     *)
JNum(n) == [t |-> "number", v |-> n]
JStr(s) == [t |-> "string", v |-> s]
JArr(items) == [t |-> "array", v |-> items]
JObj(fields) == [t |-> "object", v |-> fields]

\* String.prototype.lastIndexOf, 0-based, -1 when absent
lastIndexOf(text, sub) ==
  LET hits == {i \in 1..(Len(text) - Len(sub) + 1) : SubSeq(text, i, i + Len(sub) - 1) = sub}
  IN  IF hits = {} THEN -1 ELSE (CHOOSE i \in hits : \A j \in hits : j <= i) - 1

\* String.prototype.substring: the arguments are swapped when start > end
substring(text, start, end) ==
  SubSeq(text, Min2(Min2(start, end), Len(text)) + 1, Min2(Max2(start, end), Len(text)))

\* the three backquotes that open or close a Markdown code block, written
\* with a character the strings of this module can hold
Fence == "~~~"

\* jsonText.replace: the fences, with the "json" and the line break that
\* follow one, are removed
\* the length of the marker at the 0-based index i: the fence, "json" if it
\* follows, and a line break if it follows
MarkerLength(s, i) ==
  IF StartsWithAt(s, Fence \o "json\n", i + 1) THEN Len(Fence) + 5
  ELSE IF StartsWithAt(s, Fence \o "json", i + 1) THEN Len(Fence) + 4
  ELSE IF StartsWithAt(s, Fence \o "\n", i + 1) THEN Len(Fence) + 1
  ELSE Len(Fence)

RECURSIVE RemoveFences(_)
RemoveFences(s) ==
  IF indexOf(s, Fence) = -1 THEN s
  ELSE SubSeq(s, 1, indexOf(s, Fence))
       \o RemoveFences(SubSeq(s, indexOf(s, Fence) + MarkerLength(s, indexOf(s, Fence)) + 1,
                              Len(s)))

\* the cleaned text, or the error thrown
cleanJsonResponse(text) ==
  IF indexOf(text, "{") = -1
  THEN [ok |-> FALSE, error |-> "No JSON object found in response"]
  ELSE IF lastIndexOf(text, "}") = -1
  THEN [ok |-> FALSE, error |-> "Invalid JSON format: missing closing brace"]
  ELSE [ok |-> TRUE,
        text |-> trim(RemoveFences(substring(text, indexOf(text, "{"),
                                             lastIndexOf(text, "}") + 1)))]

AiAnalysisText ==
  "{\"keyFindings\":[\"solid\"],\"suggestedImprovements\":[],"
  \o "\"skillsAnalysis\":{\"technical\":[],\"soft\":[],\"missing\":[],\"recommendations\":[]},"
  \o "\"experienceAnalysis\":{\"strengths\":[],\"gaps\":[],\"recommendations\":[]}}"

AiAnalysisValue ==
  JObj([keyFindings |-> JArr(<<JStr("solid")>>),
        suggestedImprovements |-> JArr(<<>>),
        skillsAnalysis |-> JObj([technical |-> JArr(<<>>), soft |-> JArr(<<>>),
                                 missing |-> JArr(<<>>), recommendations |-> JArr(<<>>)]),
        experienceAnalysis |-> JObj([strengths |-> JArr(<<>>), gaps |-> JArr(<<>>),
                                     recommendations |-> JArr(<<>>)])])

AnalysisText(matchScore) ==
  "{\"matchScore\":" \o matchScore \o ",\"missingKeywords\":[],"
  \o "\"strongMatches\":[\"react\"],\"aiAnalysis\":" \o AiAnalysisText \o "}"

AnalysisValue(matchScore) ==
  JObj([matchScore |-> matchScore, missingKeywords |-> JArr(<<>>),
        strongMatches |-> JArr(<<JStr("react")>>), aiAnalysis |-> AiAnalysisValue])

ComparisonText ==
  "{\"ranking\":[\"alice\"],\"strengthComparison\":[],\"uniqueStrengths\":{},"
  \o "\"recommendations\":[]}"

\* JSON.parse of the texts analysed here: the value of each text that is
\* JSON; every other text is a SyntaxError
JsonTexts ==
  <<[text |-> AnalysisText("85"), value |-> AnalysisValue(JNum(85))],
    [text |-> AnalysisText("150"), value |-> AnalysisValue(JNum(150))],
    [text |-> AnalysisText("\"85\""), value |-> AnalysisValue(JStr("85"))],
    [text |-> "{\"matchScore\":85}", value |-> JObj([matchScore |-> JNum(85)])],
    [text |-> ComparisonText,
     value |-> JObj([ranking |-> JArr(<<JStr("alice")>>),
                     strengthComparison |-> JArr(<<>>),
                     uniqueStrengths |-> JObj(<<>>),
                     recommendations |-> JArr(<<>>)])]>>

JSONparse(text) ==
  IF \E i \in 1..Len(JsonTexts) : JsonTexts[i].text = text
  THEN [ok |-> TRUE,
        value |-> JsonTexts[CHOOSE i \in 1..Len(JsonTexts) : JsonTexts[i].text = text].value]
  ELSE [ok |-> FALSE, error |-> "SyntaxError"]

HasField(data, field) == data.t = "object" /\ field \in DOMAIN data.v

\* an array of which every item is a string
IsStringArray(value) ==
  value.t = "array" /\ \A i \in 1..Len(value.v) : value.v[i].t = "string"

HasStringArrays(data, fields) ==
  \A field \in fields : HasField(data, field) /\ IsStringArray(data.v[field])

\* validateAnalysisResponse returns the data: none of its checks throws
validateAnalysisResponse(data) ==
  /\ \A field \in {"matchScore", "missingKeywords", "strongMatches", "aiAnalysis"} :
       HasField(data, field)
  /\ data.v.matchScore.t = "number"
  /\ data.v.matchScore.v >= 0
  /\ data.v.matchScore.v <= 100
  /\ HasStringArrays(data, {"missingKeywords", "strongMatches"})
  /\ data.v.aiAnalysis.t = "object"
  /\ HasStringArrays(data.v.aiAnalysis, {"keyFindings", "suggestedImprovements"})
  /\ HasField(data.v.aiAnalysis, "skillsAnalysis")
  /\ HasStringArrays(data.v.aiAnalysis.v.skillsAnalysis,
                     {"technical", "soft", "missing", "recommendations"})
  /\ HasField(data.v.aiAnalysis, "experienceAnalysis")
  /\ HasStringArrays(data.v.aiAnalysis.v.experienceAnalysis,
                     {"strengths", "gaps", "recommendations"})

Validated(parsed) ==
  IF parsed.ok /\ validateAnalysisResponse(parsed.value)
  THEN [ok |-> TRUE, value |-> parsed.value]
  ELSE [ok |-> FALSE, error |-> "Invalid response format from AI"]

Cleaned(cleaned) ==
  IF cleaned.ok THEN Validated(JSONparse(cleaned.text))
  ELSE [ok |-> FALSE, error |-> "Invalid response format from AI"]

\* analyzeWithGemini: the validated analysis, or the error it rejects with
analyzeWithGemini(response) ==
  IF ~response.available THEN [ok |-> FALSE, error |-> "generateContent failed"]
  ELSE Cleaned(cleanJsonResponse(response.text))

ComparisonParsed(individualAnalyses, parsed) ==
  IF parsed.ok
  THEN [ok |-> TRUE,
        value |-> [candidates |-> individualAnalyses, comparison |-> parsed.value]]
  ELSE [ok |-> FALSE, error |-> "Invalid comparison response format"]

ComparisonCleaned(individualAnalyses, cleaned) ==
  IF cleaned.ok THEN ComparisonParsed(individualAnalyses, JSONparse(cleaned.text))
  ELSE [ok |-> FALSE, error |-> "Invalid comparison response format"]

\* the end of analyzeMultipleResumes, after the analyses of the resumes:
\* the comparison the model is asked for
compareWithGemini(individualAnalyses, response) ==
  IF ~response.available THEN [ok |-> FALSE, error |-> "generateContent failed"]
  ELSE ComparisonCleaned(individualAnalyses, cleanJsonResponse(response.text))

\* path.extname(filename).toLowerCase()
extname(filename) ==
  IF lastIndexOf(filename, ".") <= 0 THEN ""
  ELSE toLowerCase(SubSeq(filename, lastIndexOf(filename, ".") + 1, Len(filename)))

\* extractTextFromFile(buffer, filename): the text the parser of the file's
\* type returns; <<>> as an upload's parsed text says that the parser throws
extractTextFromFile(upload) ==
  IF upload.originalname = "" THEN [ok |-> FALSE, error |-> "Filename is required when input is a Buffer"]
  ELSE IF extname(upload.originalname) \notin {".pdf", ".doc", ".docx"}
  THEN [ok |-> FALSE, error |-> "Unsupported file type"]
  ELSE IF upload.parsed = <<>> THEN [ok |-> FALSE, error |-> "parser failed"]
  ELSE [ok |-> TRUE, text |-> upload.parsed[1]]

-----------------------------------------------------------------------------
(* The single-resume analyses: analyzeResume of resumeAnalyzer.ts, with    *)
(* and without persistence, and analyzeResume of part_005.                 *)
(* A resume file is [path, readable, parsed]: fs.readFile throws when it   *)
(* is not readable, and the parser of its type throws when parsed is <<>>. *)

\* extractTextFromFile(filePath) of resumeAnalyzer.ts
extractTextFromPath(resume) ==
  IF extname(resume.path) \notin {".pdf", ".doc", ".docx"}
  THEN [ok |-> FALSE, error |-> "Unsupported file type"]
  ELSE IF ~resume.readable THEN [ok |-> FALSE, error |-> "ENOENT"]
  ELSE IF resume.parsed = <<>> THEN [ok |-> FALSE, error |-> "parser failed"]
  ELSE [ok |-> TRUE, text |-> resume.parsed[1]]

\* extractTextFromFile(input) of part_005 for a path: the file is read first
extractTextFromInput(resume) ==
  IF ~resume.readable THEN [ok |-> FALSE, error |-> "ENOENT"]
  ELSE IF extname(resume.path) \notin {".pdf", ".doc", ".docx"}
  THEN [ok |-> FALSE, error |-> "Unsupported file type"]
  ELSE IF resume.parsed = <<>> THEN [ok |-> FALSE, error |-> "parser failed"]
  ELSE [ok |-> TRUE, text |-> resume.parsed[1]]

IsAlphabetic(token) ==
  \A i \in 1..Len(token) :
    IsCharOf(CharAt(token, i), LowerChars) \/ IsCharOf(CharAt(token, i), UpperChars)

\* the tokens longer than 2 that are no stop word and hold letters only,
\* each once
extractKeywords(text) ==
  LET Kept(token) == Len(token) > 2 /\ ~Contains(stopwords, token) /\ IsAlphabetic(token)
  IN  Unique(SelectSeq(tokenize(toLowerCase(text)), Kept))

Among(keywords, others) ==
  LET Held(keyword) == Contains(others, keyword) IN SelectSeq(keywords, Held)

NotAmong(keywords, others) ==
  LET Absent(keyword) == ~Contains(others, keyword) IN SelectSeq(keywords, Absent)

calculateMatchScore(resumeKeywords, jobKeywords) ==
  JsRound(JsMul(JsDiv(Num(Len(Among(resumeKeywords, jobKeywords))),
                      Num(Len(jobKeywords))), Num(100)))

\* items.slice(0, 10)
FirstTen(items) == SubSeq(items, 1, Min2(10, Len(items)))

\* the keyword-only result
BasicResults(resumeKeywords, jobKeywords) ==
  [matchScore |-> calculateMatchScore(resumeKeywords, jobKeywords),
   missingKeywords |-> FirstTen(NotAmong(jobKeywords, resumeKeywords)),
   strongMatches |-> FirstTen(Among(resumeKeywords, jobKeywords)),
   aiAnalysis |-> <<>>]

\* the result that takes its score and its aiAnalysis from the narrative
AiResults(basic, analysis) ==
  [basic EXCEPT !.matchScore = Num(analysis.v.matchScore.v),
                !.aiAnalysis = << [keyFindings |-> analysis.v.aiAnalysis.v.keyFindings,
                                   suggestedImprovements |->
                                     analysis.v.aiAnalysis.v.suggestedImprovements,
                                   skillsAnalysis |-> analysis.v.aiAnalysis.v.skillsAnalysis,
                                   experienceAnalysis |->
                                     analysis.v.aiAnalysis.v.experienceAnalysis] >>]

EmptyAiAnalysis ==
  [key_findings |-> JArr(<<>>), suggested_improvements |-> JArr(<<>>),
   skills_analysis |-> JObj([technical |-> JArr(<<>>), soft |-> JArr(<<>>),
                             missing |-> JArr(<<>>), recommendations |-> JArr(<<>>)]),
   experience_analysis |-> JObj([strengths |-> JArr(<<>>), gaps |-> JArr(<<>>),
                                 recommendations |-> JArr(<<>>)])]

\* path.basename(resumePath)
basename(path) == SubSeq(path, lastIndexOf(path, "/") + 2, Len(path))

\* the row handed to saveAnalysis
AnalysisRow(jobDescription, resumePath, results) ==
  [job_description |-> jobDescription,
   resume_filename |-> basename(resumePath),
   match_score |-> results.matchScore,
   missing_keywords |-> results.missingKeywords,
   strong_matches |-> results.strongMatches,
   ai_analysis |-> IF results.aiAnalysis = <<>> THEN EmptyAiAnalysis
                   ELSE [key_findings |-> results.aiAnalysis[1].keyFindings,
                         suggested_improvements |->
                           results.aiAnalysis[1].suggestedImprovements,
                         skills_analysis |-> results.aiAnalysis[1].skillsAnalysis,
                         experience_analysis |-> results.aiAnalysis[1].experienceAnalysis]]

Returns(results, saved) == [ok |-> TRUE, value |-> results, saved |-> saved]

Throws(error, saved) == [ok |-> FALSE, error |-> error, saved |-> saved]

\* the catch block of the narrative analysis: the keyword-only result is
\* saved and returned; saveAnalysis throws when the insert fails
FellBack(jobDescription, resumePath, basic, saves) ==
  IF saves[2] THEN Returns(basic, <<AnalysisRow(jobDescription, resumePath, basic)>>)
  ELSE Throws("saveAnalysis failed", <<>>)

\* the narrative analysis succeeded: its result is saved and returned; a
\* saveAnalysis that throws is caught by the same catch block
Enriched(jobDescription, resumePath, basic, results, saves) ==
  IF saves[1] THEN Returns(results, <<AnalysisRow(jobDescription, resumePath, results)>>)
  ELSE FellBack(jobDescription, resumePath, basic, saves)

Narrated(jobDescription, resumePath, basic, analysis, saves) ==
  IF analysis.ok
  THEN Enriched(jobDescription, resumePath, basic, AiResults(basic, analysis.value), saves)
  ELSE FellBack(jobDescription, resumePath, basic, saves)

\* analyzeResume(resumePath, jobDescription) of resumeAnalyzer.ts, the one
\* that persists: saves[i] says whether the i-th insert of the call, if it
\* is made, succeeds
analyzeResumeAndSave(resume, jobDescription, response, saves) ==
  IF ~extractTextFromPath(resume).ok
  THEN Throws(extractTextFromPath(resume).error, <<>>)
  ELSE Narrated(jobDescription, resume.path,
                BasicResults(extractKeywords(extractTextFromPath(resume).text),
                             extractKeywords(jobDescription)),
                analyzeWithGemini(response), saves)

NarratedOnly(basic, analysis) ==
  IF analysis.ok THEN Returns(AiResults(basic, analysis.value), <<>>)
  ELSE Returns(basic, <<>>)

\* analyzeResume(resumePath, jobDescription) of resumeAnalyzer.ts, the one
\* that does not persist
analyzeResumeOnly(resume, jobDescription, response) ==
  IF ~extractTextFromPath(resume).ok
  THEN Throws(extractTextFromPath(resume).error, <<>>)
  ELSE NarratedOnly(BasicResults(extractKeywords(extractTextFromPath(resume).text),
                                 extractKeywords(jobDescription)),
                    analyzeWithGemini(response))

\* text.split("\n")
RECURSIVE SplitLines(_)
SplitLines(text) ==
  IF indexOf(text, "\n") = -1 THEN <<text>>
  ELSE <<SubSeq(text, 1, indexOf(text, "\n"))>>
         \o SplitLines(SubSeq(text, indexOf(text, "\n") + 2, Len(text)))

\* the trimmed lines without the empty ones, which every reader of the
\* lines skips
Trimmed(pieces) == [i \in 1..Len(pieces) |-> trim(pieces[i])]

Lines(text) ==
  LET NotEmpty(line) == Len(line) > 0 IN SelectSeq(Trimmed(SplitLines(text)), NotEmpty)

IsEmailChar(c) == IsWordChar(c) \/ c \in {".", "-"}

\* line.match(PATTERNS.email): [\w.-]+@[\w.-]+\.\w+ matches somewhere
MatchesEmail(line) ==
  \E i \in 2..Len(line) :
    /\ CharAt(line, i) = "@"
    /\ IsEmailChar(CharAt(line, i - 1))
    /\ \E j \in (i + 2)..(Len(line) - 1) :
         /\ \A k \in (i + 1)..(j - 1) : IsEmailChar(CharAt(line, k))
         /\ CharAt(line, j) = "."
         /\ IsWordChar(CharAt(line, j + 1))

\* the section a line opens, or "" when it opens none
SectionOpened(normalizedLine) ==
  IF includes(normalizedLine, "skills") \/ includes(normalizedLine, "competences")
  THEN "skills"
  ELSE IF includes(normalizedLine, "experience") \/ includes(normalizedLine, "employment")
  THEN "experience"
  ELSE IF includes(normalizedLine, "education") \/ includes(normalizedLine, "formation")
  THEN "education"
  ELSE IF includes(normalizedLine, "contact") \/ MatchesEmail(normalizedLine)
  THEN "contact"
  ELSE ""

NoSections == [skills |-> <<>>, experience |-> <<>>, education |-> <<>>, contact |-> <<>>]

\* the loop that identifies the sections
RECURSIVE IdentifySections(_, _, _, _)
IdentifySections(lines, i, currentSection, sections) ==
  IF i > Len(lines) THEN sections
  ELSE IF SectionOpened(toLowerCase(lines[i])) # ""
  THEN IdentifySections(lines, i + 1, SectionOpened(toLowerCase(lines[i])), sections)
  ELSE IF currentSection # ""
  THEN IdentifySections(lines, i + 1, currentSection,
         [sections EXCEPT ![currentSection] = Append(@, lines[i])])
  ELSE IdentifySections(lines, i + 1, currentSection, sections)

\* the word and, when it is a known skill, its synonyms
SkillAndSynonyms(database, word) ==
  IF getCategoryForSkill(database, word) # "" THEN <<word>> \o findSynonyms(database, word)
  ELSE <<>>

RECURSIVE KnownSkills(_, _)
KnownSkills(database, words) ==
  IF words = <<>> THEN <<>>
  ELSE SkillAndSynonyms(database, Head(words)) \o KnownSkills(database, Tail(words))

\* extractSkills(text) of part_005
extractSkills(database, text) == Unique(KnownSkills(database, tokenize(toLowerCase(text))))

DurationUnits == <<"year", "yr", "month", "mo">>

RECURSIVE DigitsEnd(_, _)
DigitsEnd(s, i) ==
  IF i <= Len(s) /\ IsCharOf(CharAt(s, i), DigitChars) THEN DigitsEnd(s, i + 1) ELSE i - 1

\* \b after position e of s
WordEndsAt(s, e) == e = Len(s) \/ ~IsWordChar(CharAt(s, e + 1))

\* the unit, by the order of the alternatives, that (\d+)\s*(?:year|yr|
\* month|mo)s?\b finds from position u, with the end of the match; 0 for none
UnitAt(s, lower, u) ==
  LET Fits(k) ==
        /\ StartsWithAt(lower, DurationUnits[k], u)
        /\ \/ /\ StartsWithAt(lower, "s", u + Len(DurationUnits[k]))
              /\ WordEndsAt(s, u + Len(DurationUnits[k]))
           \/ WordEndsAt(s, u + Len(DurationUnits[k]) - 1)
      End(k) ==
        IF /\ StartsWithAt(lower, "s", u + Len(DurationUnits[k]))
           /\ WordEndsAt(s, u + Len(DurationUnits[k]))
        THEN u + Len(DurationUnits[k]) ELSE u + Len(DurationUnits[k]) - 1
      fitting == {k \in 1..Len(DurationUnits) : Fits(k)}
  IN  IF fitting = {} THEN [unit |-> 0, end |-> 0]
      ELSE [unit |-> SetMin(fitting), end |-> End(SetMin(fitting))]

\* block.match(PATTERNS.duration)[0] with what the second pattern, (\d+)\s*
\* (year|yr|month|mo), reads in it: the digits and the unit as written
DurationAt(s, lower, i) ==
  [text |-> SubSeq(s, i, UnitAt(s, lower, SkipSpaces(s, DigitsEnd(s, i) + 1)).end),
   digits |-> SubSeq(s, i, DigitsEnd(s, i)),
   unit |-> SubSeq(s, SkipSpaces(s, DigitsEnd(s, i) + 1),
                   SkipSpaces(s, DigitsEnd(s, i) + 1) - 1
                     + Len(DurationUnits[UnitAt(s, lower,
                                                SkipSpaces(s, DigitsEnd(s, i) + 1)).unit]))]

DurationStarts(s, lower) ==
  {i \in 1..Len(s) :
     /\ IsCharOf(CharAt(s, i), DigitChars)
     /\ UnitAt(s, lower, SkipSpaces(s, DigitsEnd(s, i) + 1)).unit # 0}

NoDuration == [text |-> "", digits |-> "", unit |-> ""]

FirstDuration(s, lower) ==
  IF DurationStarts(s, lower) = {} THEN NoDuration
  ELSE DurationAt(s, lower, SetMin(DurationStarts(s, lower)))

\* extractExperience(text) of part_005: the lines of the section arrive
\* without a blank line between them, so they form one block
extractExperience(lines) ==
  IF Len(lines) < 2 THEN <<>>
  ELSE << [role |-> lines[1],
           duration |-> FirstDuration(Join(lines, "\n"), toLowerCase(Join(lines, "\n"))),
           description |-> Join(Tail(lines), "\n")] >>

RECURSIVE NoCommaEnd(_, _)
NoCommaEnd(s, i) ==
  IF i <= Len(s) /\ CharAt(s, i) # "," THEN NoCommaEnd(s, i + 1) ELSE i - 1

RECURSIVE NoCommaStart(_, _)
NoCommaStart(s, i) ==
  IF i >= 1 /\ CharAt(s, i) # "," THEN NoCommaStart(s, i - 1) ELSE i + 1

\* the commas of ([^,]+),\s*([^,]+): one with a character other than a
\* comma on each side
DegreeCommas(line) ==
  {c \in 2..(Len(line) - 1) :
     /\ CharAt(line, c) = ","
     /\ CharAt(line, c - 1) # ","
     /\ CharAt(line, c + 1) # ","}

DegreeAt(lines, c) ==
  [degree |-> trim(SubSeq(lines[1], NoCommaStart(lines[1], c - 1), c - 1)),
   field |-> trim(SubSeq(lines[1], c + 1, NoCommaEnd(lines[1], c + 1))),
   institution |-> lines[2]]

\* extractEducation(text) of part_005, over the one block of the section
extractEducation(lines) ==
  IF Len(lines) < 2 \/ DegreeCommas(lines[1]) = {} THEN <<>>
  ELSE <<DegreeAt(lines, SetMin(DegreeCommas(lines[1])))>>

\* extractContactInfo(text) of part_005: the location, the one part of the
\* contact that analyzeResume reads
extractContactInfo(lines) ==
  [location |-> LocationFrom(Join(lines, "\n"), toLowerCase(Join(lines, "\n")), 1)]

Informed(database, sections) ==
  [skills |-> extractSkills(database, Join(sections.skills, "\n")),
   experience |-> extractExperience(sections.experience),
   education |-> extractEducation(sections.education),
   contact |-> extractContactInfo(sections.contact)]

extractStructuredInformation(database, text) ==
  Informed(database, IdentifySections(Lines(text), 1, "", NoSections))

\* the confidence of a candidate skill equivalent to the required one
SkillConfidence(database, requiredSkill, candidateSkill) ==
  IF toLowerCase(requiredSkill) = toLowerCase(candidateSkill) THEN Num(1)
  ELSE IF Contains(findSynonyms(database, requiredSkill), toLowerCase(candidateSkill))
  THEN Rat(9, 10)
  ELSE Rat(8, 10)

\* the inner loop of the scores: the index of the first candidate whose
\* score no later one replaced, a later one replacing it only when it is
\* strictly greater; best is 0 before the first candidate
RECURSIVE BestIndex(_, _, _)
BestIndex(scores, i, best) ==
  IF i > Len(scores) THEN best
  ELSE IF best = 0 \/ Gt(scores[i], scores[best]) THEN BestIndex(scores, i + 1, i)
  ELSE BestIndex(scores, i + 1, best)

\* bestMatch after the loop: <<>> for null
BestOf(matches, scores) ==
  IF matches = <<>> THEN <<>> ELSE <<matches[BestIndex(scores, 1, 0)]>>

SkillMatches(database, requiredSkill, equivalents) ==
  [i \in 1..Len(equivalents) |->
     [skill |-> requiredSkill, found |-> equivalents[i],
      category |-> IF getCategoryForSkill(database, requiredSkill) = "" THEN "Unknown"
                   ELSE getCategoryForSkill(database, requiredSkill),
      confidence |-> SkillConfidence(database, requiredSkill, equivalents[i])]]

BestSkill(matches) == BestOf(matches, Confidences(matches))

BestRelevant(matches) == BestOf(matches, Relevances(matches))

BestSkillMatch(database, requiredSkill, candidateSkills) ==
  LET Equivalent(candidateSkill) == isSkillEquivalent(database, requiredSkill, candidateSkill)
  IN  BestSkill(SkillMatches(database, requiredSkill, SelectSeq(candidateSkills, Equivalent)))

SkillScored(requiredSkills, best) ==
  [score |-> JsRound(JsMul(JsDiv(SumSeq([i \in 1..Len(Flatten(best)) |->
                                           JsMul(Flatten(best)[i].confidence, Num(100))]),
                                 Num(Len(requiredSkills) * 100)), Num(100))),
   matches |-> Flatten(best),
   missing |-> Flatten([i \in 1..Len(requiredSkills) |->
                          IF best[i] = <<>> THEN <<requiredSkills[i]>> ELSE <<>>])]

calculateSkillScore(database, requiredSkills, candidateSkills) ==
  SkillScored(requiredSkills,
              [i \in 1..Len(requiredSkills) |->
                 BestSkillMatch(database, requiredSkills[i], candidateSkills)])

\* the months of a duration: parseInt of the digits, times 12 when the unit
\* as written starts with a small y
parseInt(digits) == parseFloat(digits)

durationInMonths(duration) ==
  IF duration.digits = "" THEN 0
  ELSE IF StartsWithAt(duration.unit, "y", 1) THEN parseInt(duration.digits) * 12
  ELSE parseInt(duration.digits)

FoundKeywords(requiredKeywords, description) ==
  LET Mentioned(keyword) == includes(toLowerCase(description), toLowerCase(keyword))
  IN  SelectSeq(requiredKeywords, Mentioned)

KeywordScore(requiredKeywords, foundKeywords) ==
  IF Len(requiredKeywords) > 0 THEN Rat(Len(foundKeywords), Len(requiredKeywords))
  ELSE Num(1)

\* required.minYears ? Math.min(months / (minYears * 12), 1) : 1, with
\* minYears <<>> when it is not given
YearsScore(minYears, months) ==
  IF minYears = <<>> \/ minYears[1] = 0 THEN Num(1)
  ELSE JsMin(JsDiv(Num(months), Num(minYears[1] * 12)), Num(1))

DetailedExperienceMatch(required, candidate) ==
  [role |-> candidate.role,
   duration |-> durationInMonths(candidate.duration),
   relevance |->
     JsMul(JsAdd(JsAdd(JsMul(calculateJaroWinklerDistance(toLowerCase(required.role),
                                                          toLowerCase(candidate.role)),
                             Rat(4, 10)),
                       JsMul(YearsScore(required.minYears,
                                        durationInMonths(candidate.duration)),
                             Rat(3, 10))),
                 JsMul(KeywordScore(required.requirements,
                                    FoundKeywords(required.requirements,
                                                  candidate.description)),
                       Rat(3, 10))),
           Num(100)),
   keywords |-> FoundKeywords(required.requirements, candidate.description)]

RelevanceScored(required, matches) ==
  [score |-> JsRound(JsMul(JsDiv(SumSeq([i \in 1..Len(matches) |-> matches[i].relevance]),
                                 Num(Len(required) * 100)), Num(100))),
   matches |-> matches]

calculateExperienceScore(requiredExperience, candidateExperience) ==
  RelevanceScored(requiredExperience,
    Flatten([r \in 1..Len(requiredExperience) |->
               BestRelevant([i \in 1..Len(candidateExperience) |->
                               DetailedExperienceMatch(requiredExperience[r],
                                               candidateExperience[i])])]))

DetailedEducationMatch(required, candidate) ==
  [degree |-> candidate.degree,
   field |-> candidate.field,
   relevance |->
     JsMul(JsAdd(JsMul(calculateJaroWinklerDistance(toLowerCase(required.degree),
                                                    toLowerCase(candidate.degree)),
                       Rat(6, 10)),
                 JsMul(calculateJaroWinklerDistance(toLowerCase(required.field),
                                                    toLowerCase(candidate.field)),
                       Rat(4, 10))),
           Num(100))]

calculateEducationScore(requiredEducation, candidateEducation) ==
  RelevanceScored(requiredEducation,
    Flatten([r \in 1..Len(requiredEducation) |->
               BestRelevant([i \in 1..Len(candidateEducation) |->
                               DetailedEducationMatch(requiredEducation[r],
                                              candidateEducation[i])])]))

\* detectRedFlags(candidateInfo) of part_005
detectRedFlags(candidateInfo) ==
  LET Short(experience) == durationInMonths(experience.duration) < 12
      shortTermPositions == SelectSeq(candidateInfo.experience, Short)
  IN  (IF Len(shortTermPositions) >= 2
       THEN <<NumberToString(Len(shortTermPositions))
                \o " positions de moins d'un an détectées">>
       ELSE <<>>)
      \o (IF Len(candidateInfo.education) = 0
          THEN <<"Aucune information sur la formation">> ELSE <<>>)

\* jobRequirements?.requiredSkills || extractSkills(jobDescription), and the
\* like: jobRequirements is <<>> when it is not given
RequiredSkillsOf(database, jobDescription, jobRequirements) ==
  IF jobRequirements = <<>> THEN extractSkills(database, jobDescription)
  ELSE jobRequirements[1].requiredSkills

RequiredExperienceOf(jobRequirements) ==
  IF jobRequirements = <<>> THEN <<>> ELSE jobRequirements[1].requiredExperience

RequiredEducationOf(jobRequirements) ==
  IF jobRequirements = <<>> THEN <<>> ELSE jobRequirements[1].requiredEducation

LocationInfo(contact, jobRequirements) ==
  [candidateLocation |-> contact.location,
   jobLocation |-> IF jobRequirements = <<>> \/ jobRequirements[1].location = <<>>
                   THEN <<>> ELSE <<jobRequirements[1].location[1].city>>,
   isRemote |-> IF jobRequirements = <<>> \/ jobRequirements[1].location = <<>>
                THEN <<>> ELSE jobRequirements[1].location[1].remote]

globalScore(skillsAnalysis, experienceAnalysis, educationAnalysis) ==
  JsRound(JsAdd(JsAdd(JsMul(skillsAnalysis.score, Rat(4, 10)),
                      JsMul(experienceAnalysis.score, Rat(35, 100))),
                JsMul(educationAnalysis.score, Rat(25, 100))))

DetailedResults(info, skillsAnalysis, experienceAnalysis, educationAnalysis, jobRequirements) ==
  [matchScore |-> globalScore(skillsAnalysis, experienceAnalysis, educationAnalysis),
   skillMatches |-> skillsAnalysis.matches,
   missingSkills |-> skillsAnalysis.missing,
   experienceMatches |-> experienceAnalysis.matches,
   educationMatches |-> educationAnalysis.matches,
   locationInfo |-> LocationInfo(info.contact, jobRequirements),
   redFlags |-> detectRedFlags(info),
   aiAnalysis |-> <<>>]

Detailed(database, info, jobDescription, jobRequirements) ==
  DetailedResults(info,
    calculateSkillScore(database,
                        RequiredSkillsOf(database, jobDescription, jobRequirements),
                        info.skills),
    calculateExperienceScore(RequiredExperienceOf(jobRequirements), info.experience),
    calculateEducationScore(RequiredEducationOf(jobRequirements), info.education),
    jobRequirements)

NarratedDetailed(results, analysis) ==
  IF analysis.ok
  THEN Returns([results EXCEPT !.aiAnalysis = <<analysis.value.v.aiAnalysis>>], <<>>)
  ELSE Returns(results, <<>>)

\* analyzeResume(resumePath, jobDescription, jobRequirements) of part_005
analyzeResumeDetailed(database, resume, jobDescription, jobRequirements, response) ==
  IF ~extractTextFromInput(resume).ok
  THEN Throws(extractTextFromInput(resume).error, <<>>)
  ELSE NarratedDetailed(
         Detailed(database,
                  extractStructuredInformation(database, extractTextFromInput(resume).text),
                  jobDescription, jobRequirements),
         analyzeWithGemini(response))

-----------------------------------------------------------------------------
(* Bounded inputs.                                                         *)

MaxRequired == 2     \* longest list of required skills, roles or degrees

SeqsUpTo(S, n) == UNION {[1..k -> S] : k \in 0..n}

ResumeTexts == {"", "Expert React and JS dev", "docker projet", "Rust", "projet ReactJS"}

SkillNames == {"React", "javascript", "docker"}

\* a skills_database.json as an administrator may author it
FileDatabases == {
  [categories |-> << [name |-> "Languages", keywords |-> <<"rust">>,
                      synonyms |-> << [key |-> "rust", val |-> <<"rs">>] >>] >>,
   allSynonyms |-> << [key |-> "rust", val |-> <<"rs">>] >>] }

MaxExperiences == 2  \* longest work history

Experience(role, startDate, endDate, duration, skills) ==
  [role |-> role, startDate |-> startDate, endDate |-> endDate, duration |-> duration,
   description |-> role, skills |-> skills]

\* days between the end of the first position and the start of a later one:
\* 3, 4, 6, 7, 12 and 13 months
GapDays == {91, 92, 182, 183, 365, 366}

ExperiencePool ==
  {Experience("Developer", Day(100), Day(400), 10, <<"react">>),
   Experience("Lead Developer", NoDate, NoDate, 6, <<"react", "docker">>),
   Experience("Intern", Day(300), Day(390), 3, <<>>)}
  \cup {Experience("Senior Developer", Day(400 + g), Day(800 + g), 14, <<"docker">>) :
          g \in GapDays}

EducationPool ==
  {[degree |-> "Master", field |-> "computer science", institution |-> "INSA Lyon",
    startDate |-> Day(50), endDate |-> Day(450)],
   [degree |-> "Bachelor of Arts", field |-> "history", institution |-> "Open University",
    startDate |-> NoDate, endDate |-> NoDate]}

\* the education entries of the education analysis: the last two are a short
\* cycle in a field written in two letters and a doctorate of a ranked school
DiplomaPool ==
  EducationPool
  \cup {[degree |-> "BTS", field |-> "IT", institution |-> "Lycee Diderot",
          startDate |-> NoDate, endDate |-> NoDate],
         [degree |-> "PhD", field |-> "physics", institution |-> "Ecole Polytechnique",
          startDate |-> NoDate, endDate |-> NoDate]}

CertificationPool ==
  {[name |-> "Docker Certified Associate", issuer |-> "Docker", date |-> Day(900),
    expiryDate |-> NoDate, score |-> 0],
   [name |-> "React Developer", issuer |-> "Meta", date |-> Day(160),
    expiryDate |-> Day(1500), score |-> 90]}

\* the day the analysis runs
NowDays == {2000}

RoleNames == {"Developer", "Data Analyst"}

\* the experiences a parsed resume yields for the experience analysis
WorkPool ==
  {Experience("Developer", Day(100), Day(400), 10, <<"react">>),
   Experience("Lead Developer", NoDate, NoDate, 6, <<"react", "docker">>),
   Experience("Intern", Day(300), Day(390), 0, <<>>),
   Experience("Developer", Day(200), Day(400), 24, <<"docker">>)}

ExperienceRequirements ==
  [roles : SeqsUpTo(RoleNames, MaxRequired),
   minYearsTotal : {0, 1},
   requiredSkills : {<<>>, <<"Developer">>, <<"Developer", "docker">>}]

DegreePool ==
  {[degree |-> "Master", field |-> "computer science"],
   [degree |-> "PhD", field |-> ""]}

EducationRequirements ==
  [degrees : SeqsUpTo(DegreePool, MaxRequired),
   requiredCertifications : {<<>>, << <<>> >>, << <<"Docker Certified Associate">> >>},
   minimumDegreeLevel : {0, 4}]

-----------------------------------------------------------------------------
Init ==
  /\ db = EmptyDatabase
  /\ call = [op |-> "none"]
  /\ tfidfDocs = <<>>
  /\ history = <<>>
  /\ batch = [pc |-> "idle"]
  /\ req = [pc |-> "idle"]

\* SkillsDatabaseManager.initialize: the file's content, or the default data
\* when the file cannot be read
Initialize ==
  /\ call.op = "none"
  /\ db' \in FileDatabases \cup {initializeDefaultData}
  /\ UNCHANGED <<call, tfidfDocs, history, batch, req>>

AnalyzeSkills ==
  /\ call.op = "none"
  /\ \E text \in ResumeTexts, required \in SeqsUpTo(SkillNames, MaxRequired) :
       call' = [op |-> "analyzeSkills",
                in |-> [resumeText |-> text, requiredSkills |-> required],
                out |-> analyzeSkills(db, text, required)]
  /\ UNCHANGED <<db, tfidfDocs, history, batch, req>>

AnalyzeProfile ==
  /\ call.op = "none"
  /\ \E experiences \in SeqsUpTo(ExperiencePool, MaxExperiences),
        education \in SeqsUpTo(EducationPool, 1),
        certifications \in SeqsUpTo(CertificationPool, 1),
        now \in NowDays :
       call' = [op |-> "analyzeProfile",
                in |-> [experiences |-> experiences, education |-> education,
                        certifications |-> certifications],
                out |-> analyzeProfile(experiences, education, certifications, Day(now))]
  /\ UNCHANGED <<db, tfidfDocs, history, batch, req>>

Coordinates(latitude, longitude) == << [latitude |-> latitude, longitude |-> longitude] >>

Location(city, region, coordinates) ==
  [city |-> city, region |-> region, country |-> "France", coordinates |-> coordinates]

Paris == Location("Paris", "Ile-de-France", Coordinates(488566, 23522))

LocationPool ==
  {Paris,
   Location("Paris", "Ile-de-France", <<>>),
   Location("Paris", "Ile-de-France", Coordinates(488700, 23700)),
   Location("Versailles", "Ile-de-France", Coordinates(488049, 21204)),
   Location("Meaux", "Ile-de-France", Coordinates(489562, 28884)),
   Location("Lyon", "Auvergne-Rhone-Alpes", Coordinates(457640, 48357)),
   [city |-> "Geneve", region |-> "", country |-> "Suisse", coordinates |-> <<>>],
   [city |-> "Bruxelles", region |-> "Bruxelles-Capitale", country |-> "Belgique",
    coordinates |-> <<>>]}

\* the last one gives no region, as the manager's job location
JobLocations ==
  {Paris, Location("Lyon", "Auvergne-Rhone-Alpes", <<>>), Location("Lyon", "", <<>>)}

MobilityPreferences ==
  [isRemoteOnly : BOOLEAN, isHybridAccepted : BOOLEAN, isRelocationAccepted : BOOLEAN,
   maxCommuteDistance : {0, 20, 400},
   preferredLocations : {<<>>, <<Paris>>, <<Location("Lyon", "Auvergne-Rhone-Alpes", <<>>)>>}]

JobRequirements ==
  [isRemoteAllowed : BOOLEAN, isHybridAllowed : BOOLEAN, maxAllowedCommuteDistance : {0, 45, 400}]

MaxCalls == 2       \* calls of analyzeCriteria in one process
MaxCriteria == 2    \* longest list of custom criteria
MaxDocuments == 8   \* most documents the TfIdf holds

Criterion(id, type, value, target, weight, required, category) ==
  [id |-> id, name |-> id, type |-> type, value |-> value, target |-> target,
   weight |-> weight, required |-> required, category |-> category,
   validationRules |-> [min |-> <<>>, max |-> <<>>]]

CriterionPool ==
  {Criterion("c1", "semantic", "python developer", 0, Rat(1, 2), TRUE, ""),
   Criterion("c2", "keyword", "java", 0, Num(1), TRUE, "tech"),
   Criterion("c3", "regex", "senior", 0, Num(0), FALSE, "tech"),
   Criterion("c4", "numeric", "", 5, Rat(1, 2), TRUE, ""),
   Criterion("c5", "boolean", "remote", 0, Rat(3, 10), FALSE, "")}

CriteriaTexts == {"Python developer. 5 years", "Senior Java expert in Jva 10"}

AnalyzeExperience ==
  /\ call.op = "none"
  /\ \E experiences \in SeqsUpTo(WorkPool, MaxExperiences),
        requirements \in ExperienceRequirements, now \in NowDays :
       call' = [op |-> "analyzeExperience",
                in |-> [experiences |-> experiences, requirements |-> requirements],
                out |-> analyzeExperience(db, experiences, requirements, Day(now))]
  /\ UNCHANGED <<db, tfidfDocs, history, batch, req>>

AnalyzeEducation ==
  /\ call.op = "none"
  /\ \E education \in SeqsUpTo(DiplomaPool, MaxExperiences),
        certifications \in SeqsUpTo(CertificationPool, 1),
        requirements \in EducationRequirements, now \in NowDays :
       call' = [op |-> "analyzeEducation",
                in |-> [education |-> education, certifications |-> certifications,
                        requirements |-> requirements],
                out |-> analyzeEducation(education, certifications, requirements, Day(now))]
  /\ UNCHANGED <<db, tfidfDocs, history, batch, req>>

AnalyzeLocation ==
  /\ call.op = "none"
  /\ \E candidateLocation \in LocationPool, candidateMobility \in MobilityPreferences,
        jobLocation \in JobLocations, jobRequirements \in JobRequirements :
       call' = [op |-> "analyzeLocation",
                in |-> [candidateLocation |-> candidateLocation,
                        candidateMobility |-> candidateMobility,
                        jobLocation |-> jobLocation,
                        jobRequirements |-> jobRequirements],
                out |-> analyzeLocation(candidateLocation, candidateMobility,
                                        jobLocation, jobRequirements)]
  /\ UNCHANGED <<db, tfidfDocs, history, batch, req>>

Returned(text, criteria, result) ==
  /\ Len(result.documents) <= MaxDocuments
  /\ tfidfDocs' = result.documents
  /\ call' = [op |-> "analyzeCriteria", in |-> [text |-> text, criteria |-> criteria],
              out |-> result.out]
  /\ history' = Append(history, [in |-> [text |-> text, criteria |-> criteria],
                                 score |-> result.out.score,
                                 details |-> result.out.details])

\* CustomCriteriaAnalyzer.getInstance().analyzeCriteria(text, criteria)
AnalyzeCriteria ==
  /\ Len(history) < MaxCalls
  /\ \E text \in CriteriaTexts, criteria \in SeqsUpTo(CriterionPool, MaxCriteria) :
       Returned(text, criteria, analyzeCriteria(text, criteria, tfidfDocs))
  /\ UNCHANGED <<db, batch, req>>

\* a numeric criterion with its validation rules: min and max are <<>> when
\* the rule is not given
NumericCriterion(target, min, max) ==
  [Criterion("n1", "numeric", "", target, Num(1), TRUE, "")
     EXCEPT !.validationRules = [min |-> min, max |-> max]]

NumericBounds == {<<>>, <<0>>, <<8>>, <<20>>}

NumericCriterionPool ==
  {NumericCriterion(target, min, max) :
     target \in {0, 5, 10}, min \in NumericBounds, max \in NumericBounds}

NumericTexts == {"5 years", "Java 10 and 25 projects", "no number", "8 teams", "0 or 12"}

\* analyzeCriteria(text, [criterion]) with a numeric criterion
AnalyzeNumericCriterion ==
  /\ call.op = "none"
  /\ \E text \in NumericTexts, criterion \in NumericCriterionPool :
       Returned(text, <<criterion>>, analyzeCriteria(text, <<criterion>>, tfidfDocs))
  /\ UNCHANGED <<db, batch, req>>

\* the names compared by isSkillEquivalent: keys and synonyms of the catalogs,
\* in several cases, and names no catalog knows
EquivalenceNames ==
  {"React", "reactjs", "javascript", "JS", "ecmascript", "rust", "rs", "RS",
   "docker", "k8s", "kube"}

\* the degrees getDegreeLevel is asked about: each key of the table, or a
\* word that holds none, in several cases, alone or inside a longer title,
\* and followed or not by a second key
DegreeWords ==
  {"doctorat", "Doctorat", "PhD", "PHD", "master", "Master", "MASTER", "mba", "MBA",
   "ingénieur", "Ingénieur", "INGÉNIEUR", "licence", "Licence", "bachelor", "Bachelor",
   "BACHELOR", "dut", "DUT", "bts", "BTS", "bac", "Bac", "Baccalauréat", "CAP",
   "Brevet", ""}

DegreePrefixes == {"", "Diplôme de "}

DegreeSuffixes == {"", " informatique", " puis BAC", " et Doctorat"}

DegreeStrings ==
  {prefix \o word \o suffix :
     prefix \in DegreePrefixes, word \in DegreeWords, suffix \in DegreeSuffixes}

\* the analyses generateSummary is given: the scores of the three analyzers,
\* a location analysis or none, and the red flags with the overallRisk that
\* analyzeProfile computes from their impacts
SummaryScores == {Num(0), Num(50), Num(60), Num(80), Num(100)}

SummaryLocations ==
  {<<>>} \cup {<<[score |-> Num(score), recommendations |-> <<>>]>> : score \in {0, 50, 100}}

SummaryImpacts == {<<>>, <<20>>, <<40>>, <<70, 70>>}

SummaryRedFlags(impacts) ==
  [flags |-> [i \in 1..Len(impacts) |-> [impact |-> impacts[i]]],
   overallRisk |-> JsMin(Num(100), JsRound(JsDiv(Num(SumInts(impacts)), Num(Len(impacts))))),
   recommendations |-> <<>>]

SummaryAnalyses(skills, experience, education, location, impacts) ==
  [skills |-> [score |-> skills, missing |-> <<>>, recommendations |-> <<>>],
   experience |-> [score |-> experience, gaps |-> [duration |-> FALSE],
                   recommendations |-> <<>>],
   education |-> [score |-> education, recommendations |-> <<>>],
   location |-> location,
   redFlags |-> SummaryRedFlags(impacts)]

MaxCandidates == 3   \* most resumes in one batch

File(name, extracted) == [name |-> name, extracted |-> extracted]

Section(title, content) == [title |-> title, content |-> content]

\* the uploads of a batch: resumes the extractor reads, and one it throws on
UploadPool ==
  {File("alice", << <<Section("Contact", "Alice, based in Paris, France"),
                      Section("Skills", "Expert React and docker")>> >>),
   File("bob", << <<Section("Profile", "docker projet")>> >>),
   File("carol", <<>>),
   File("dave", << <<Section("Contact details", "located in Lyon"),
                     Section("Skills", "React")>> >>),
   File("eve", << <<Section("Skills", "Rust")>> >>)}

DistinctNames(files) ==
  \A i, j \in 1..Len(files) : i # j => files[i].name # files[j].name

Uploads == {files \in SeqsUpTo(UploadPool, MaxCandidates) : DistinctNames(files)}

ResumeAnalysisConfig(requiredSkills, minYearsTotal, location, customCriteria) ==
  [requiredSkills |-> requiredSkills,
   experience |-> [roles |-> <<"Developer">>, minYearsTotal |-> minYearsTotal,
                   requiredSkills |-> <<"docker">>],
   education |-> [degrees |-> <<[degree |-> "Master", field |-> "computer science"]>>,
                  requiredCertifications |-> <<>>, minimumDegreeLevel |-> 0],
   location |-> location,
   customCriteria |-> customCriteria]

ManagerConfigs ==
  {ResumeAnalysisConfig(<<"React", "docker">>, 1, <<>>, <<>>),
   ResumeAnalysisConfig(<<"React", "docker">>, 1,
     << [city |-> "Paris", remote |-> FALSE, hybrid |-> TRUE, maxCommuteDistance |-> 0] >>,
     << <<Criterion("k1", "keyword", "react", 0, Num(1), TRUE, ""),
          Criterion("s1", "semantic", "docker projet", 0, Rat(1, 2), FALSE, "")>> >>),
   ResumeAnalysisConfig(<<"docker">>, 0, <<>>, <<>>),
   ResumeAnalysisConfig(<<>>, 1, <<>>, <<>>),
   [ResumeAnalysisConfig(<<"docker">>, 0, <<>>,
      << <<Criterion("k2", "keyword", "kubernetes", 0, Num(1), TRUE, "")>> >>)
    EXCEPT !.experience.roles = <<>>, !.experience.requiredSkills = <<>>]}

Upload(name, buffer, originalname, parsed) ==
  [name |-> name, buffer |-> buffer, originalname |-> originalname, parsed |-> parsed]

\* the uploads of analyzeMultipleCandidates: a file without content, one of
\* an unsupported type, one the parser throws on, one without text
CandidateUploadPool ==
  {Upload("alice", TRUE, "alice.pdf", <<"Skills React docker">>),
   Upload("bob", TRUE, "bob.DOCX", <<"docker projet">>),
   Upload("carol", FALSE, "carol.pdf", <<>>),
   Upload("dave", TRUE, "dave.txt", <<"React">>),
   Upload("erin", TRUE, "erin.pdf", <<"">>),
   Upload("frank", TRUE, "frank.doc", <<>>)}

CandidateUploads ==
  {files \in SeqsUpTo(CandidateUploadPool, MaxCandidates) : DistinctNames(files)}

ResumePool ==
  {[name |-> "alice", text |-> "Skills React docker"],
   [name |-> "bob", text |-> "docker projet"],
   [name |-> "dave", text |-> "React"]}

ResumeBatches == {resumes \in SeqsUpTo(ResumePool, MaxCandidates) : DistinctNames(resumes)}

JobDescriptions == {"React developer with docker"}

Response(text) == [available |-> TRUE, text |-> text]

Unavailable == [available |-> FALSE, text |-> ""]

\* what the model answers to the analysis of a resume
GeminiResponses ==
  {Unavailable,
   Response(AnalysisText("85")),
   Response(Fence \o "json\n" \o AnalysisText("85") \o "\n" \o Fence),
   Response("Voici l'analyse : " \o AnalysisText("150")),
   Response(AnalysisText("\"85\"")),
   Response("{\"matchScore\":85}"),
   Response("{\"matchScore\":85"),
   Response("Je ne peux pas analyser ce CV.")}

\* what the model answers to the comparison of the candidates
ComparisonResponses ==
  {Unavailable, Response(ComparisonText), Response("Comparaison impossible.")}

\* a batch in progress: the files or resumes given, the texts extracted and
\* the analyses made so far, and the responses the model has given
Batch(fn, files, config, resumes) ==
  [pc |-> "extracting", fn |-> fn, files |-> files, config |-> config,
   resumes |-> resumes, individualAnalyses |-> <<>>, responses |-> <<>>]

\* the promise of a batch is resolved with a value
Resolved(b, value) ==
  [pc |-> "resolved", fn |-> b.fn, files |-> b.files, config |-> b.config,
   resumes |-> b.resumes, responses |-> b.responses, value |-> value]

\* the catch block of a batch rethrows: the promise is rejected
Rejected(b, candidate, error) ==
  [pc |-> "rejected", fn |-> b.fn, files |-> b.files, config |-> b.config,
   resumes |-> b.resumes, responses |-> b.responses,
   error |-> [candidate |-> candidate, error |-> error]]

\* the manager's batch after an await: the comparison is made, and the
\* promise resolved, once every file has its analysis
Resumed(b) ==
  IF Len(b.individualAnalyses) = Len(b.files)
  THEN Resolved(b, ComparativeAnalysis(b.individualAnalyses))
  ELSE [b EXCEPT !.pc = "analyzing"]

\* ResumeAnalysisManager.analyzeMultipleResumes(files, config) is called
AnalyzeMultipleResumes ==
  /\ batch.pc = "idle"
  /\ \E files \in Uploads, config \in ManagerConfigs :
       batch' = Resumed(Batch("ResumeAnalysisManager.analyzeMultipleResumes",
                              files, config, <<>>))
  /\ UNCHANGED <<db, call, tfidfDocs, history, req>>

ResumeAnalysed(file, result) ==
  /\ tfidfDocs' = result.documents
  /\ batch' = IF result.ok
              THEN Resumed([batch EXCEPT !.individualAnalyses =
                              Append(@, [name |-> file.name, analysis |-> result.report])])
              ELSE Rejected(batch, <<file.name>>, result.error)

\* await this.analyzeResume(file.buffer, file.originalname, config) of the
\* next file of the loop
AnalyzeNextResume ==
  /\ batch.pc = "analyzing"
  /\ batch.fn = "ResumeAnalysisManager.analyzeMultipleResumes"
  /\ \E now \in NowDays :
       ResumeAnalysed(batch.files[Len(batch.individualAnalyses) + 1],
                      analyzeResume(db, tfidfDocs,
                                    batch.files[Len(batch.individualAnalyses) + 1],
                                    batch.config, Day(now)))
  /\ UNCHANGED <<db, call, history, req>>

\* Analysing where the comparison is asked for as soon as one resume has its
\* analysis
Analysing_AfterFirst(b) ==
  IF Len(b.individualAnalyses) >= 1 \/ Len(b.resumes) = 0
  THEN [b EXCEPT !.pc = "comparing"] ELSE [b EXCEPT !.pc = "analyzing"]

\* analyzeMultipleResumes(resumes, jobDescription) of the narrative analyzer
\* awaits the analysis of its next resume, or the comparison after the last
Analysing(b) ==
  IF Len(b.individualAnalyses) = Len(b.resumes)
  THEN [b EXCEPT !.pc = "comparing"] ELSE [b EXCEPT !.pc = "analyzing"]

\* analyzeMultipleCandidates awaits the text of its next file, and calls
\* analyzeMultipleResumes after the last
Extracting(b) == IF Len(b.resumes) = Len(b.files) THEN Analysing(b) ELSE b

\* analyzeMultipleCandidates(files, jobDescription) is called
AnalyzeMultipleCandidates ==
  /\ batch.pc = "idle"
  /\ \E files \in CandidateUploads, jobDescription \in JobDescriptions :
       batch' = Extracting(Batch("analyzeMultipleCandidates", files, jobDescription, <<>>))
  /\ UNCHANGED <<db, call, tfidfDocs, history, req>>

TextExtracted(upload, extraction) ==
  IF ~extraction.ok THEN Rejected(batch, <<upload.name>>, extraction.error)
  ELSE IF extraction.text = ""
  THEN Rejected(batch, <<upload.name>>, "Echec de l'extraction du texte du fichier")
  ELSE Extracting([batch EXCEPT !.resumes =
                     Append(@, [name |-> upload.name, text |-> extraction.text])])

\* one turn of the loop of analyzeMultipleCandidates
ExtractNextCandidate ==
  /\ batch.pc = "extracting"
  /\ batch' = IF ~batch.files[Len(batch.resumes) + 1].buffer
              THEN Rejected(batch, <<batch.files[Len(batch.resumes) + 1].name>>,
                            "Aucun contenu trouve dans le fichier")
              ELSE TextExtracted(batch.files[Len(batch.resumes) + 1],
                                 extractTextFromFile(batch.files[Len(batch.resumes) + 1]))
  /\ UNCHANGED <<db, call, tfidfDocs, history, req>>

\* analyzeMultipleResumes(resumes, jobDescription) of the narrative analyzer
\* is called
AnalyzeMultipleResumesWithGemini ==
  /\ batch.pc = "idle"
  /\ \E resumes \in ResumeBatches, jobDescription \in JobDescriptions :
       batch' = Analysing(Batch("analyzeMultipleResumes", <<>>, jobDescription, resumes))
  /\ UNCHANGED <<db, call, tfidfDocs, history, req>>

GeminiAnalysed(b, resume, analysis) ==
  IF analysis.ok
  THEN Analysing([b EXCEPT !.individualAnalyses =
                    Append(@, [name |-> resume.name, analysis |-> analysis.value])])
  ELSE Rejected(b, <<resume.name>>, analysis.error)

\* await analyzeWithGemini(resumeText, jobDescription) of the next resume
AnalyzeNextWithGemini ==
  /\ batch.pc = "analyzing"
  /\ batch.fn # "ResumeAnalysisManager.analyzeMultipleResumes"
  /\ \E response \in GeminiResponses :
       batch' = GeminiAnalysed([batch EXCEPT !.responses = Append(@, response)],
                               batch.resumes[Len(batch.individualAnalyses) + 1],
                               analyzeWithGemini(response))
  /\ UNCHANGED <<db, call, tfidfDocs, history, req>>

GeminiCompared(b, comparison) ==
  IF comparison.ok THEN Resolved(b, comparison.value)
  ELSE Rejected(b, <<>>, comparison.error)

\* the comparison the model is asked for once every resume is analysed
CompareWithGemini ==
  /\ batch.pc = "comparing"
  /\ \E response \in ComparisonResponses :
       batch' = GeminiCompared([batch EXCEPT !.responses = Append(@, response)],
                               compareWithGemini(batch.individualAnalyses, response))
  /\ UNCHANGED <<db, call, tfidfDocs, history, req>>

\* skills matching and red-flag detection
\* a resume on the disk: its path, whether it can be read, and what the
\* parser of its type extracts, <<>> when the parser throws
ResumeFile(path, readable, parsed) == [path |-> path, readable |-> readable, parsed |-> parsed]

ResumeFiles ==
  {ResumeFile("/cv/alice.pdf", TRUE,
     <<"Skills\nReact docker\nExperience\nDeveloper\n3 years react\nEducation\nMaster, Computer\nMIT">>),
   ResumeFile("/cv/bob.DOCX", TRUE,
     <<"b@x.io\nlocated in Lyon\nExperience\nDev\n18 Months\nSkills\nrust">>),
   ResumeFile("/cv/carol.doc", TRUE, <<"React developer">>),
   ResumeFile("/cv/dave.txt", TRUE, <<"React">>),
   ResumeFile("/cv/erin.pdf", FALSE, <<"React">>),
   ResumeFile("/cv/frank.docx", TRUE, <<>>)}

ResumeJobs == JobDescriptions \cup {"Rust for the js", ""}

DetailedRequirements ==
  {<<>>,
   << [requiredSkills |-> <<"React", "JS">>,
       requiredExperience |-> << [role |-> "Developer", minYears |-> <<2>>,
                                  requirements |-> <<"react", "aws">>] >>,
       requiredEducation |-> << [degree |-> "Master", field |-> "Computer Science"] >>,
       location |-> << [city |-> "Paris", remote |-> <<TRUE>>] >>] >>,
   << [requiredSkills |-> <<>>,
       requiredExperience |-> << [role |-> "Dev", minYears |-> <<>>, requirements |-> <<>>] >>,
       requiredEducation |-> <<>>,
       location |-> <<>>] >>}

\* a call of analyzeResume once it has settled; the functions keep nothing
\* from one call to the next, so a behaviour follows one call
Request(fn, resume, jobDescription, response, out) ==
  [pc |-> "done", fn |-> fn, resume |-> resume, jobDescription |-> jobDescription,
   response |-> response, out |-> out]

\* analyzeResume of resumeAnalyzer.ts with saveAnalysis: the answer of the
\* model and the outcome of each insert are what the services give
AnalyzeResumeAndSave ==
  /\ req.pc = "idle"
  /\ \E resume \in ResumeFiles, jobDescription \in ResumeJobs,
        response \in GeminiResponses, saves \in BOOLEAN \X BOOLEAN :
       req' = Request("analyzeResume with saveAnalysis", resume, jobDescription, response,
                      analyzeResumeAndSave(resume, jobDescription, response, saves))
  /\ UNCHANGED <<db, call, tfidfDocs, history, batch>>

\* analyzeResume of resumeAnalyzer.ts without saveAnalysis
AnalyzeResumeOnly ==
  /\ req.pc = "idle"
  /\ \E resume \in ResumeFiles, jobDescription \in ResumeJobs, response \in GeminiResponses :
       req' = Request("analyzeResume", resume, jobDescription, response,
                      analyzeResumeOnly(resume, jobDescription, response))
  /\ UNCHANGED <<db, call, tfidfDocs, history, batch>>

\* analyzeResume of part_005
AnalyzeResumeDetailed ==
  /\ req.pc = "idle"
  /\ \E resume \in ResumeFiles, jobDescription \in ResumeJobs,
        jobRequirements \in DetailedRequirements, response \in GeminiResponses :
       req' = Request("analyzeResume with jobRequirements", resume, jobDescription, response,
                      analyzeResumeDetailed(db, resume, jobDescription, jobRequirements,
                                            response))
  /\ UNCHANGED <<db, call, tfidfDocs, history, batch>>

Next ==
  \/ Initialize
  \/ AnalyzeSkills
  \/ AnalyzeProfile

Spec == Init /\ [][Next]_vars

\* matching against the requirements of a job
NextRequirements ==
  \/ Initialize
  \/ AnalyzeExperience
  \/ AnalyzeEducation

SpecRequirements == Init /\ [][NextRequirements]_vars

\* custom criteria, several calls in one process
NextCriteria == AnalyzeCriteria

SpecCriteria == Init /\ [][NextCriteria]_vars

\* location viability
NextLocation == AnalyzeLocation

SpecLocation == Init /\ [][NextLocation]_vars

\* multi-candidate analysis
NextBatch ==
  \/ Initialize
  \/ AnalyzeMultipleResumes
  \/ AnalyzeNextResume
  \/ AnalyzeMultipleCandidates
  \/ ExtractNextCandidate
  \/ AnalyzeMultipleResumesWithGemini
  \/ AnalyzeNextWithGemini
  \/ CompareWithGemini

SpecBatch == Init /\ [][NextBatch]_vars

\* the single-resume analyses
NextResume ==
  \/ Initialize
  \/ AnalyzeResumeAndSave
  \/ AnalyzeResumeOnly
  \/ AnalyzeResumeDetailed

SpecResume == Init /\ [][NextResume]_vars

\* numeric criteria under validation rules
NextNumeric == AnalyzeNumericCriterion

SpecNumeric == Init /\ [][NextNumeric]_vars

\* SkillsDatabaseManager.isSkillEquivalent(skill1, skill2) is called
IsSkillEquivalent ==
  /\ call.op = "none"
  /\ \E skill1 \in EquivalenceNames, skill2 \in EquivalenceNames :
       call' = [op |-> "isSkillEquivalent",
                in |-> [skill1 |-> skill1, skill2 |-> skill2],
                out |-> isSkillEquivalent(db, skill1, skill2)]
  /\ UNCHANGED <<db, tfidfDocs, history, batch, req>>

NextEquivalence == Initialize \/ IsSkillEquivalent

SpecEquivalence == Init /\ [][NextEquivalence]_vars

\* EducationAnalyzer.getDegreeLevel(degree) is called
GetDegreeLevel ==
  /\ call.op = "none"
  /\ \E degree \in DegreeStrings :
       call' = [op |-> "getDegreeLevel", in |-> [degree |-> degree],
                out |-> getDegreeLevel(degree)]
  /\ UNCHANGED <<db, tfidfDocs, history, batch, req>>

NextDegree == GetDegreeLevel

SpecDegree == Init /\ [][NextDegree]_vars

\* ResumeAnalysisManager.generateSummary(analyses) is called
GenerateSummary ==
  /\ call.op = "none"
  /\ \E skills \in SummaryScores, experience \in SummaryScores, education \in SummaryScores,
        location \in SummaryLocations, impacts \in SummaryImpacts :
       call' = [op |-> "generateSummary",
                in |-> SummaryAnalyses(skills, experience, education, location, impacts),
                out |-> generateSummary(SummaryAnalyses(skills, experience, education,
                                                        location, impacts))]
  /\ UNCHANGED <<db, tfidfDocs, history, batch, req>>

NextSummary == GenerateSummary

SpecSummary == Init /\ [][NextSummary]_vars

-----------------------------------------------------------------------------
(* ExperienceAnalyzer.detectCareerProgression.                             *)

MaxCareer == 3  \* longest career handed to detectCareerProgression

\* the positions of a career, with the day they start and end and their
\* duration in months
CareerPool ==
  {Experience("Developer", Day(100), Day(400), 10, <<>>),
   Experience("Developer", Day(100), Day(830), 24, <<>>),
   Experience("Intern", Day(50), Day(140), 3, <<>>),
   Experience("Senior Developer", Day(500), Day(930), 14, <<>>),
   Experience("Senior Developer", Day(1500), Day(1680), 6, <<>>),
   Experience("Lead Developer", NoDate, NoDate, 6, <<>>),
   Experience("Data Analyst", Day(300), Day(390), 3, <<>>)}

promotionKeywords == <<"senior", "lead", "chef", "manager", "directeur">>

\* the number of positions i >= 2 of a sequence that satisfy Holds
CountFrom2(s, Holds(_)) == Cardinality({i \in 2..Len(s) : Holds(i)})

detectCareerProgression(experiences) ==
  LET sortedExperiences == SortByKey(experiences, StartKey)
      currentRole(i) == toLowerCase(sortedExperiences[i].role)
      previousRole(i) == toLowerCase(sortedExperiences[i - 1].role)
      IsShort(i) == sortedExperiences[i].duration < 12
      hasPromotion(i) ==
        \E k \in 1..Len(promotionKeywords) :
          /\ includes(currentRole(i), promotionKeywords[k])
          /\ ~includes(previousRole(i), promotionKeywords[k])
      IsChange(i) == /\ ~includes(currentRole(i), previousRole(i))
                     /\ ~includes(previousRole(i), currentRole(i))
      shortTermPositions == CountFrom2(sortedExperiences, IsShort)
      responsibilityIncrease == CountFrom2(sortedExperiences, hasPromotion)
      roleChanges == CountFrom2(sortedExperiences, IsChange)
      progression ==
        IF responsibilityIncrease > 0 /\ shortTermPositions <= 1 THEN "positive"
        ELSE IF 2 * roleChanges > Len(experiences) THEN "irregular"
        ELSE "stable"
  IN  [progression |-> progression,
       observations |->
         (IF progression = "positive"
          THEN << <<"Progression de carriere positive avec augmentation des responsabilites">> >>
          ELSE IF progression = "irregular"
          THEN << <<"Changements frequents de direction de carriere">> >>
          ELSE <<>>)
         \o (IF shortTermPositions > 1
             THEN << <<shortTermPositions, " postes de courte duree detectes">> >>
             ELSE <<>>)]

\* ExperienceAnalyzer.detectCareerProgression(experiences) is called
DetectCareerProgression ==
  /\ call.op = "none"
  /\ \E experiences \in SeqsUpTo(CareerPool, MaxCareer) :
       call' = [op |-> "detectCareerProgression", in |-> [experiences |-> experiences],
                out |-> detectCareerProgression(experiences)]
  /\ UNCHANGED <<db, tfidfDocs, history, batch, req>>

NextCareer == DetectCareerProgression

SpecCareer == Init /\ [][NextCareer]_vars

-----------------------------------------------------------------------------
(* C1: for every resume text and every list of required skills, the empty  *)
(* list included, analyzeSkills returns a score that is a number in        *)
(* [0,100], and the score is 0 when the list is empty.                     *)
C1_SkillsScoreDefined ==
  call.op = "analyzeSkills" =>
    /\ InPercentRange(call.out.score)
    /\ (call.in.requiredSkills = <<>> => call.out.score = Num(0))

(* C2: analyzeProfile returns an overallRisk in [0,100] for every input:   *)
(* 0 when no flag is produced, else the rounded mean of the flags' impacts.*)
C2_OverallRiskDefined ==
  call.op = "analyzeProfile" =>
    LET flags == call.out.flags
    IN  /\ InPercentRange(call.out.overallRisk)
        /\ (flags = <<>> => call.out.overallRisk = Num(0))
        /\ (flags # <<>> =>
              call.out.overallRisk = JsRound(Rat(SumInts(Impacts(flags)), Len(flags))))

\* the months of a span of days: the least m with m * 30.44 >= days
MonthsOfDays(days) == CHOOSE m \in 0..(days + 1) : m * 3044 >= days * 100 /\ (m - 1) * 3044 < days * 100

(* C7: for two experiences adjacent in start-date order, the next starting *)
(* after the previous ends, with d the months between them: a TimeGap is   *)
(* recorded iff d > 3, a critical flag of impact 80 is raised iff d > 12,  *)
(* and a warning flag of impact 50 iff 6 < d <= 12.                        *)
C7_GapThresholds ==
  call.op = "analyzeProfile" =>
    LET sorted == SortByKey(call.in.experiences, StartKey)
        pairs == {i \in 2..Len(sorted) :
                    /\ IsDate(sorted[i].startDate) /\ IsDate(sorted[i - 1].endDate)
                    /\ getTime(sorted[i].startDate) > getTime(sorted[i - 1].endDate)}
        D(i) == MonthsOfDays(getTime(sorted[i].startDate) - getTime(sorted[i - 1].endDate))
        gaps == call.out.timeGaps
        flags == call.out.flags
        critical == {j \in 1..Len(flags) :
                       flags[j].description = "Gap significatif dans le parcours professionnel"}
        warning == {j \in 1..Len(flags) :
                      flags[j].description = "Gap notable dans le parcours professionnel"}
    IN  /\ \A i \in pairs :
             /\ (\E j \in 1..Len(gaps) :
                   gaps[j] = [startDate |-> sorted[i - 1].endDate,
                              endDate |-> sorted[i].startDate, duration |-> D(i)])
                <=> D(i) > 3
             /\ (\E j \in critical :
                   /\ flags[j].type = "critical" /\ flags[j].impact = 80
                   /\ flags[j].details = <<D(i), sorted[i - 1].endDate, sorted[i].startDate>>)
                <=> D(i) > 12
             /\ (\E j \in warning :
                   /\ flags[j].type = "warning" /\ flags[j].impact = 50
                   /\ flags[j].details = <<D(i)>>)
                <=> (D(i) > 6 /\ D(i) <= 12)
        /\ Len(gaps) = Cardinality({i \in pairs : D(i) > 3})
        /\ Cardinality(critical) = Cardinality({i \in pairs : D(i) > 12})
        /\ Cardinality(warning) = Cardinality({i \in pairs : D(i) > 6 /\ D(i) <= 12})

\* a 13-month gap was analysed: recorded, and flagged critical with impact 80
C7_Witness ==
  /\ call.op = "analyzeProfile"
  /\ \E j \in 1..Len(call.out.timeGaps) : call.out.timeGaps[j].duration = 13
  /\ \E j \in 1..Len(call.out.flags) :
       call.out.flags[j].type = "critical" /\ call.out.flags[j].impact = 80

(* C10: when the job requires no experience or education items             *)
(* (analyzeExperience with empty roles, empty requiredSkills or            *)
(* minYearsTotal = 0; analyzeEducation with empty degrees), the returned   *)
(* score is a number in [0,100], never NaN or infinite.                    *)
C10_EmptyRequirementsScoreDefined ==
  /\ (/\ call.op = "analyzeExperience"
      /\ \/ call.in.requirements.roles = <<>>
         \/ call.in.requirements.requiredSkills = <<>>
         \/ call.in.requirements.minYearsTotal = 0)
     => InPercentRange(call.out.score)
  /\ (call.op = "analyzeEducation" /\ call.in.requirements.degrees = <<>>)
     => InPercentRange(call.out.score)

\* the candidate and the job location carry the same coordinates
IdenticalCoordinates ==
  /\ call.op = "analyzeLocation"
  /\ call.in.candidateLocation.coordinates # <<>>
  /\ call.in.candidateLocation.coordinates = call.in.jobLocation.coordinates

(* C9 as stated: with identical coordinates analyzeLocation gives distance *)
(* 0, matchType 'exact', and a returned score of 100.                      *)
C9_IdenticalCoordinatesScore100 ==
  IdenticalCoordinates =>
    /\ call.out.match.distance = Num(0)
    /\ call.out.match.matchType = "exact"
    /\ call.out.score = Num(100)

(* C9, amended: with identical coordinates analyzeLocation gives distance  *)
(* 0 and matchType 'exact'; the score is the work-arrangement score (0 for *)
(* a remote-only candidate when remote is not allowed, 100 when it is, 90  *)
(* for hybrid, 85 for on-site) plus 10, clamped to 100, minus 10 when the  *)
(* candidate gives preferred locations and none is in the job's city; it   *)
(* is 100 only for an allowed remote-only or hybrid arrangement without    *)
(* that penalty.                                                           *)
C9_IdenticalCoordinatesExact ==
  IdenticalCoordinates =>
    LET mobility == call.in.candidateMobility
        job == call.in.jobRequirements
        remote == mobility.isRemoteOnly /\ job.isRemoteAllowed
        refused == mobility.isRemoteOnly /\ ~job.isRemoteAllowed
        hybrid == ~mobility.isRemoteOnly /\ job.isHybridAllowed /\ mobility.isHybridAccepted
        penalty == IF /\ mobility.preferredLocations # <<>>
                      /\ \A i \in 1..Len(mobility.preferredLocations) :
                           mobility.preferredLocations[i].city # call.in.jobLocation.city
                   THEN 10 ELSE 0
        bonus == IF refused THEN 10 ELSE IF remote \/ hybrid THEN 100 ELSE 95
    IN  /\ call.out.match.distance = Num(0)
        /\ call.out.match.matchType = "exact"
        /\ call.out.match.isWithinCommutingDistance
        /\ call.out.score = Num(bonus - penalty)
        /\ (call.out.score = Num(100) <=> ((remote \/ hybrid) /\ penalty = 0))

\* identical coordinates, an on-site arrangement: exact, and a score of 95
C9_Witness ==
  /\ IdenticalCoordinates
  /\ call.out.match.matchType = "exact"
  /\ call.out.workArrangement = "on_site"
  /\ call.out.score = Num(95)

\* the per-category scores of an analysis
CategoryScores(details) == [category \in DOMAIN details |-> details[category].score]

(* C4: analysis results depend only on the inputs of the call: two calls   *)
(* of analyzeCriteria with identical text and criteria in the same         *)
(* process, whatever was analysed before, give the same score and the same *)
(* per-category scores.                                                    *)
C4_SameInputsSameScores ==
  \A i, j \in 1..Len(history) :
     history[i].in = history[j].in =>
       /\ history[i].score = history[j].score
       /\ CategoryScores(history[i].details) = CategoryScores(history[j].details)

(* C6: after analyzeCriteria returns, missingRequired contains exactly the *)
(* criteria with required = true whose match has found = false, whatever   *)
(* their category, those without a category included.                      *)
C6_MissingRequiredExact ==
  call.op = "analyzeCriteria" =>
    LET criteria == call.in.criteria
        matches == call.out.matches
        missingRequired == call.out.missingRequired
        unmet == {i \in 1..Len(criteria) : criteria[i].required /\ ~matches[i].found}
        \* the position in criteria of the j-th unmet criterion
        Position(j) == CHOOSE i \in unmet : Cardinality({k \in unmet : k < i}) = j - 1
    IN  /\ Len(matches) = Len(criteria)
        /\ \A i \in 1..Len(criteria) : matches[i].criterion = criteria[i]
        /\ Len(missingRequired) = Cardinality(unmet)
        /\ \A j \in 1..Len(missingRequired) : missingRequired[j] = criteria[Position(j)]

\* a required criterion without a category was not found and is reported,
\* next to a required criterion that was found and is not
C6_Witness ==
  /\ call.op = "analyzeCriteria"
  /\ \E j \in 1..Len(call.out.missingRequired) :
       call.out.missingRequired[j].category = "" /\ call.out.missingRequired[j].required
  /\ \E i \in 1..Len(call.out.matches) :
       call.out.matches[i].found /\ call.out.matches[i].criterion.required

\* the batch has returned: its promise is resolved or rejected
Finished == batch.pc \in {"resolved", "rejected"}

\* the candidates on whose file the extraction fails
FailedExtractions(b) ==
  IF b.fn = "ResumeAnalysisManager.analyzeMultipleResumes"
  THEN {b.files[i].name : i \in {j \in 1..Len(b.files) : b.files[j].extracted = <<>>}}
  ELSE {b.files[i].name :
          i \in {j \in 1..Len(b.files) :
                   \/ ~b.files[j].buffer
                   \/ ~extractTextFromFile(b.files[j]).ok
                   \/ extractTextFromFile(b.files[j]).text = ""}}

\* the candidates whose narrative analysis was rejected
FailedNarratives(b) ==
  IF b.fn = "ResumeAnalysisManager.analyzeMultipleResumes" THEN {}
  ELSE {b.resumes[i].name :
          i \in {j \in 1..Min2(Len(b.responses), Len(b.resumes)) :
                   ~analyzeWithGemini(b.responses[j]).ok}}

Candidates(b) ==
  {b.files[i].name : i \in 1..Len(b.files)} \cup {b.resumes[i].name : i \in 1..Len(b.resumes)}

\* the candidates whose analysis the value returned by the batch holds
AnalysedCandidates(b) ==
  IF b.fn = "ResumeAnalysisManager.analyzeMultipleResumes"
  THEN {b.value.individualAnalyses[i].name : i \in 1..Len(b.value.individualAnalyses)}
  ELSE {b.value.candidates[i].name : i \in 1..Len(b.value.candidates)}

(* C3: in multi-candidate analysis, when the analysis of one candidate     *)
(* fails the batch is not aborted: the batch still returns a value with a  *)
(* comparison, and the value holds the analysis of every other candidate.  *)
C3_BatchSurvivesCandidateFailure ==
  Finished /\ FailedExtractions(batch) \cup FailedNarratives(batch) # {} =>
    /\ batch.pc = "resolved"
    /\ "comparison" \in DOMAIN batch.value
    /\ Candidates(batch) \ (FailedExtractions(batch) \cup FailedNarratives(batch))
         \subseteq AnalysedCandidates(batch)

\* the skills of the matches of the i-th analysis
SkillsMatched(analyses, i) ==
  {analyses[i].analysis.skillsAnalysis.matches[k].skill :
     k \in 1..Len(analyses[i].analysis.skillsAnalysis.matches)}

\* the overallScore of the candidate a line of the ranking names
RankedScore(analyses, line) ==
  analyses[CHOOSE i \in 1..Len(analyses) : analyses[i].name = BeforeColon(line)]
    .analysis.overallScore

(* C8: in the comparison of ResumeAnalysisManager.analyzeMultipleResumes   *)
(* the ranking lists every candidate once and no candidate before one of   *)
(* greater overallScore; a skill is in a candidate's uniqueStrengths iff   *)
(* the candidate matched it and no other candidate's skill matches hold    *)
(* it, so no skill is in the uniqueStrengths of two candidates.            *)
C8_RankingAndUniqueStrengths ==
  batch.pc = "resolved" /\ batch.fn = "ResumeAnalysisManager.analyzeMultipleResumes" =>
    LET analyses == batch.value.individualAnalyses
        ranking == batch.value.comparison.ranking
        uniqueStrengths == batch.value.comparison.uniqueStrengths
        n == Len(analyses)
    IN  /\ Len(ranking) = n
        /\ {BeforeColon(ranking[i]) : i \in 1..n} = {analyses[i].name : i \in 1..n}
        /\ \A i, j \in 1..n :
             i < j => ~Lt(RankedScore(analyses, ranking[i]), RankedScore(analyses, ranking[j]))
        /\ Len(uniqueStrengths) = n
        /\ \A i \in 1..n :
             /\ uniqueStrengths[i].name = analyses[i].name
             /\ SeqToSet(uniqueStrengths[i].skills) =
                  {skill \in SkillsMatched(analyses, i) :
                     \A j \in 1..n : j # i => skill \notin SkillsMatched(analyses, j)}
        /\ \A i, j \in 1..n :
             i # j => SeqToSet(uniqueStrengths[i].skills)
                      \cap SeqToSet(uniqueStrengths[j].skills) = {}

\* three candidates of pairwise different scores whose ranking is not the
\* order of their analyses, one with a unique strength and with a matched
\* skill that another candidate matched as well
C8_Witness ==
  /\ batch.pc = "resolved"
  /\ batch.fn = "ResumeAnalysisManager.analyzeMultipleResumes"
  /\ Len(batch.value.individualAnalyses) = 3
  /\ \A i, j \in 1..3 :
       i # j => /\ batch.value.individualAnalyses[i].analysis.overallScore.k = "num"
                /\ batch.value.individualAnalyses[i].analysis.overallScore
                     # batch.value.individualAnalyses[j].analysis.overallScore
  /\ BeforeColon(batch.value.comparison.ranking[1]) # batch.value.individualAnalyses[1].name
  /\ \E i \in 1..3 :
       /\ batch.value.comparison.uniqueStrengths[i].skills # <<>>
       /\ Len(batch.value.comparison.uniqueStrengths[i].skills)
            < Len(batch.value.individualAnalyses[i].analysis.skillsAnalysis.matches)

\* the text extraction of the call that settled succeeded
Extracted ==
  IF req.fn = "analyzeResume with jobRequirements" THEN extractTextFromInput(req.resume).ok
  ELSE extractTextFromPath(req.resume).ok

\* the narrative analyzer failed: it threw, or its answer could not be
\* parsed or was not valid
NarrativeFailed == ~analyzeWithGemini(req.response).ok

\* C5: when the narrative analyzer fails, analyzeResume does not fail: it
\* returns its result without aiAnalysis, for resumeAnalyzer.ts the score
\* from the keyword overlap with the missing and the strong keywords; and
\* analyzeResume fails only when the text extraction fails
C5_NarrativeFailureIsNotFatal ==
  req.pc = "done" =>
    /\ (Extracted /\ NarrativeFailed) =>
         /\ req.out.ok
         /\ req.out.value.aiAnalysis = <<>>
         /\ req.fn # "analyzeResume with jobRequirements" =>
              req.out.value
                = BasicResults(extractKeywords(extractTextFromPath(req.resume).text),
                               extractKeywords(req.jobDescription))
    /\ ~req.out.ok => ~Extracted

\* the educationScore of the result of analyzeEducation: the summed
\* relevance of the matches over the number of required degrees
EducationShare == JsDiv(SumSeq(Relevances(call.out.matches)), Num(Len(call.in.requirements.degrees)))

\* no certification is required: requiredCertifications is absent, or is
\* present with no entries
NoCertificationRequired ==
  /\ call.op = "analyzeEducation"
  /\ OrEmpty(call.in.requirements.requiredCertifications) = <<>>

(* C11: when no certifications are required (requiredCertifications        *)
(* absent, or present with no entries), analyzeEducation returns           *)
(* gaps.certifications = [] and scores with certificationScore = 1, also   *)
(* for a candidate without education or certification entries; otherwise   *)
(* certificationScore = accepted certifications / required certifications. *)
C11_NoCertificationRequiredScoresOne ==
  /\ NoCertificationRequired =>
       /\ call.out.gaps.certifications = <<>>
       /\ call.out.score
            = JsRound(JsMul(JsAdd(JsMul(EducationShare, Rat(7, 10)),
                                  JsMul(Num(1), Rat(3, 10))), Num(100)))
  /\ (call.op = "analyzeEducation" /\ ~NoCertificationRequired) =>
       call.out.score
         = JsRound(JsMul(JsAdd(JsMul(EducationShare, Rat(7, 10)),
                               JsMul(Rat(Len(call.out.certificationMatches),
                                         Len(call.in.requirements.requiredCertifications[1])),
                                     Rat(3, 10))), Num(100)))

(* C12: every CriterionMatch.confidence produced by analyzeCriteria is in  *)
(* [0,1]; in particular the confidence of a numeric criterion, for every   *)
(* target value, every combination of the min and max validation rules and *)
(* every number found in the text.                                         *)
C12_ConfidenceInUnitRange ==
  call.op = "analyzeCriteria" =>
    \A i \in 1..Len(call.out.matches) :
       /\ call.out.matches[i].confidence.k = "num"
       /\ Le(Num(0), call.out.matches[i].confidence)
       /\ Le(call.out.matches[i].confidence, Num(1))

(* C13: analyzeCriteria never divides by zero: each per-category score and *)
(* the global score are defined numbers in [0,100] for every criteria      *)
(* list, an empty list and lists whose weights sum to 0 included; a        *)
(* zero-weight total gives score 0, never NaN.                             *)
C13_CriteriaScoresDefined ==
  call.op = "analyzeCriteria" =>
    /\ InPercentRange(call.out.score)
    /\ \A category \in DOMAIN call.out.details :
         InPercentRange(call.out.details[category].score)
    /\ IsZero(SumSeq(Weights(call.in.criteria))) => call.out.score = Num(0)

\* the fields validateAnalysisResponse requires, in the order it checks them
requiredFields == <<"matchScore", "missingKeywords", "strongMatches", "aiAnalysis">>

MissingFields(data) ==
  SelectSeq(requiredFields, LAMBDA field : ~HasField(data, field))

\* the error thrown inside the inner try block of analyzeWithGemini for the
\* first three checks made on a response: "" when none of them throws
ThrownByValidation(data) ==
  IF MissingFields(data) # <<>>
  THEN "Missing required field: " \o MissingFields(data)[1]
  ELSE IF ~(data.v.matchScore.t = "number" /\ data.v.matchScore.v >= 0
            /\ data.v.matchScore.v <= 100)
       THEN "matchScore must be a number between 0 and 100"
       ELSE ""

ThrownByParse(parsed) ==
  IF parsed.ok THEN ThrownByValidation(parsed.value) ELSE parsed.error

ThrownInside(response) ==
  IF cleanJsonResponse(response.text).ok
  THEN ThrownByParse(JSONparse(cleanJsonResponse(response.text).text))
  ELSE cleanJsonResponse(response.text).error

\* the response analyzeWithGemini rejected in a batch that failed on a resume
RejectedResponse == batch.responses[Len(batch.responses)]

AnalysisRejected ==
  /\ batch.pc = "rejected"
  /\ batch.fn # "ResumeAnalysisManager.analyzeMultipleResumes"
  /\ batch.error.candidate # <<>>
  /\ batch.responses # <<>>

(* C14: when analyzeWithGemini rejects, the message of its error names the
   cause: the message of the error thrown by cleanJsonResponse when the
   response holds no JSON object, the message of validateAnalysisResponse when
   a required field is missing or the matchScore is not a number of [0, 100],
   and the message of the model call's own error when the call fails. *)
C14_RejectionNamesItsCause ==
  AnalysisRejected =>
    /\ ~RejectedResponse.available => batch.error.error = "generateContent failed"
    /\ (/\ RejectedResponse.available
        /\ ThrownInside(RejectedResponse) \in
             {"No JSON object found in response",
              "matchScore must be a number between 0 and 100"}
             \cup {"Missing required field: " \o requiredFields[i] : i \in 1..4})
       => batch.error.error = ThrownInside(RejectedResponse)

ClaimedHierarchy ==
  << <<"doctorat", 5>>, <<"phd", 5>>, <<"master", 4>>, <<"mba", 4>>, <<"ingénieur", 4>>,
     <<"licence", 3>>, <<"bachelor", 3>>, <<"dut", 2>>, <<"bts", 2>>, <<"bac", 1>> >>

\* the places of the claimed table whose key the degree holds, whatever the case
KeysHeld(degree) ==
  {i \in 1..Len(ClaimedHierarchy) : includes(toLowerCase(degree), ClaimedHierarchy[i][1])}

(* C16: getDegreeLevel returns 0 for a degree that holds none of the keys   *)
(* of the hierarchy table, whatever the case of its letters, and otherwise  *)
(* the level of the key held that comes first in the table, so that a       *)
(* degree holding "bachelor" has level 3 and not the level 1 of "bac".      *)
C16_FirstKeyOfTableDecides ==
  call.op = "getDegreeLevel" =>
    /\ KeysHeld(call.in.degree) = {} => call.out = 0
    /\ \A i \in KeysHeld(call.in.degree) :
         (\A j \in KeysHeld(call.in.degree) : i <= j) => call.out = ClaimedHierarchy[i][2]
    /\ includes(toLowerCase(call.in.degree), "bachelor")
         /\ (\A i \in KeysHeld(call.in.degree) : i >= 7) => call.out = 3

\* a degree written with capitals that holds "bachelor", hence "bac", and no
\* earlier key of the table
C16_Witness ==
  /\ call.op = "getDegreeLevel"
  /\ {7, 10} \subseteq KeysHeld(call.in.degree)
  /\ \A i \in KeysHeld(call.in.degree) : i >= 7
  /\ call.in.degree # toLowerCase(call.in.degree)
  /\ call.out = 3

\* the required skill is written in the resume text, whatever the case
Verbatim(resumeText, requiredSkill) ==
  includes(toLowerCase(resumeText), toLowerCase(requiredSkill))

\* the places of the required skills that fall in the category of this one
SameCategory(requiredSkills, requiredSkill) ==
  {j \in 1..Len(requiredSkills) :
     CategoryOrOther(db, requiredSkills[j]) = CategoryOrOther(db, requiredSkill)}

(* C17: a required skill that the resume text holds verbatim, whatever the  *)
(* case, has a match in the result of analyzeSkills; every match of that    *)
(* skill was found as the skill itself, not as a synonym, with confidence   *)
(* exactly 1; and when it is the only required skill of its category the    *)
(* score of that category is 100.                                           *)
C17_VerbatimSkillFullConfidence ==
  call.op = "analyzeSkills" =>
    \A i \in 1..Len(call.in.requiredSkills) :
      Verbatim(call.in.resumeText, call.in.requiredSkills[i]) =>
        /\ \E k \in 1..Len(call.out.matches) :
             call.out.matches[k].skill = call.in.requiredSkills[i]
        /\ \A k \in 1..Len(call.out.matches) :
             call.out.matches[k].skill = call.in.requiredSkills[i] =>
               /\ call.out.matches[k].found = call.in.requiredSkills[i]
               /\ call.out.matches[k].confidence = Num(1)
        /\ SameCategory(call.in.requiredSkills, call.in.requiredSkills[i]) = {i} =>
             call.out.categories[CategoryOrOther(db, call.in.requiredSkills[i])].score = Num(100)

\* the text holds the required skill and one of its synonyms in a context
\* that raises the synonym's confidence to 1, and the skill is alone in its
\* category
C17_Witness ==
  /\ call.op = "analyzeSkills"
  /\ \E i \in 1..Len(call.in.requiredSkills) :
       /\ Verbatim(call.in.resumeText, call.in.requiredSkills[i])
       /\ SameCategory(call.in.requiredSkills, call.in.requiredSkills[i]) = {i}
       /\ Len(call.in.requiredSkills) = 2
       /\ \E s \in 1..Len(findSynonyms(db, call.in.requiredSkills[i])) :
            /\ Verbatim(call.in.resumeText, findSynonyms(db, call.in.requiredSkills[i])[s])
            /\ calculateSkillConfidence(db, call.in.requiredSkills[i],
                 findSynonyms(db, call.in.requiredSkills[i])[s],
                 extractContext(call.in.resumeText,
                                findSynonyms(db, call.in.requiredSkills[i])[s])) = Num(1)

\* the candidates whose analysis the batch holds while it runs
HeldCandidates(b) == {b.individualAnalyses[i].name : i \in 1..Len(b.individualAnalyses)}

(* C18: in a batch the comparison is made only once every candidate has    *)
(* its individual analysis: when the batch asks for the comparison the     *)
(* analyses it holds are those of all its candidates, each answered by the *)
(* model, and the value a batch returns compares all its candidates; a     *)
(* batch in which an analysis failed makes no comparison.                  *)
C18_ComparisonAfterEveryAnalysis ==
  /\ batch.pc = "comparing" =>
       /\ HeldCandidates(batch) = Candidates(batch)
       /\ Len(batch.individualAnalyses) = Len(batch.resumes)
       /\ Len(batch.responses) = Len(batch.resumes)
  /\ batch.pc = "resolved" =>
       /\ AnalysedCandidates(batch) = Candidates(batch)
       /\ "comparison" \in DOMAIN batch.value
       /\ batch.fn = "ResumeAnalysisManager.analyzeMultipleResumes" =>
            Len(batch.value.comparison.ranking) = Len(batch.files)
       /\ batch.fn # "ResumeAnalysisManager.analyzeMultipleResumes" =>
            Len(batch.responses) = Len(batch.resumes) + 1
  /\ batch.pc = "rejected" => "value" \notin DOMAIN batch

\* the comparison is asked for after the analyses of three candidates
C18_Witness ==
  /\ batch.pc = "comparing"
  /\ Len(batch.resumes) = 3
  /\ Len(batch.individualAnalyses) = 3

\* analyzeLocation has returned for a candidate who works remotely only
RemoteOnly == call.op = "analyzeLocation" /\ call.in.candidateMobility.isRemoteOnly

\* the candidate gives preferred locations and none is in the city of the job
OutsidePreferences ==
  /\ call.in.candidateMobility.preferredLocations # <<>>
  /\ \A i \in 1..Len(call.in.candidateMobility.preferredLocations) :
       call.in.candidateMobility.preferredLocations[i].city # call.in.jobLocation.city

(* C19: for a candidate who works remotely only, analyzeLocation returns    *)
(* score 0 and isViable false when the job does not allow remote work,      *)
(* whatever the distance, the matchType and the preferred locations; when   *)
(* the job allows it the workArrangement is 'remote' and the score is the   *)
(* 100 it starts from, less the adjustments for a commutable distance and   *)
(* for a job outside the preferred locations.                               *)
C19_RemoteOnlyRefusedScoresZero ==
  RemoteOnly =>
    /\ ~call.in.jobRequirements.isRemoteAllowed =>
         /\ call.out.score = Num(0)
         /\ ~call.out.isViable
    /\ call.in.jobRequirements.isRemoteAllowed =>
         /\ call.out.workArrangement = "remote"
         /\ Le(call.out.score, Num(100))
         /\ (call.out.match.matchType # "commutable" /\ ~OutsidePreferences)
              => call.out.score = Num(100)

\* the blend of the claim: the location counts with its score when a
\* location analysis is present, with 100 when there is none
ClaimedBlend(analyses) ==
  SumSeq(<<JsMul(analyses.skills.score, Rat(3, 10)),
           JsMul(analyses.experience.score, Rat(3, 10)),
           JsMul(analyses.education.score, Rat(2, 10)),
           JsMul(IF analyses.location = <<>> THEN Num(100) ELSE analyses.location[1].score,
                 Rat(1, 10)),
           JsMul(JsSub(Num(100), analyses.redFlags.overallRisk), Rat(1, 10))>>)

ClaimedBand(blend) ==
  IF Ge(blend, Num(80)) THEN "Excellent profil, fortement recommande pour le poste"
  ELSE IF Ge(blend, Num(70)) THEN "Bon profil, recommande avec quelques points a approfondir"
  ELSE IF Ge(blend, Num(60))
  THEN "Profil acceptable mais necessitant des verifications complementaires"
  ELSE "Profil ne correspondant pas suffisamment aux exigences du poste"

(* C20: the overallAssessment of the summary is the band of the blend      *)
(* 0.3 skills + 0.3 experience + 0.2 education + 0.1 L + 0.1 (100 - risk),  *)
(* L being the location score when a location analysis is present and 100  *)
(* only when it is absent: excellent from 80, good from 70, acceptable     *)
(* from 60, insufficient below; and a candidate whose skills, experience   *)
(* and education score 100 and who has no red flag is rated excellent.     *)
C20_SummaryBandFromBlend ==
  call.op = "generateSummary" =>
    /\ call.out.overallAssessment = ClaimedBand(ClaimedBlend(call.in))
    /\ (/\ call.in.skills.score = Num(100)
        /\ call.in.experience.score = Num(100)
        /\ call.in.education.score = Num(100)
        /\ call.in.redFlags.flags = <<>>)
       => call.out.overallAssessment = "Excellent profil, fortement recommande pour le poste"

\* the reports the manager has made in the batch
ManagerReports ==
  IF batch.pc \notin {"resolved", "analyzing"} THEN <<>>
  ELSE IF batch.fn # "ResumeAnalysisManager.analyzeMultipleResumes" THEN <<>>
  ELSE IF batch.pc = "resolved" THEN batch.value.individualAnalyses
  ELSE batch.individualAnalyses

\* score * weight of a component, nothing for a component not analysed
Part(score, tenths) == IF score = <<>> THEN Num(0) ELSE JsMul(score[1], Rat(tenths, 10))

ClaimedOverall(scores) ==
  JsRound(JsAdd(JsAdd(JsAdd(JsAdd(Part(<<scores.skills>>, 3), Part(<<scores.experience>>, 3)),
                            Part(<<scores.education>>, 2)),
                      Part(scores.location, 1)),
                Part(scores.customCriteria, 1)))

ScoresInRange(scores) ==
  /\ InPercentRange(scores.skills)
  /\ InPercentRange(scores.experience)
  /\ InPercentRange(scores.education)
  /\ scores.location # <<>> => InPercentRange(scores.location[1])
  /\ scores.customCriteria # <<>> => InPercentRange(scores.customCriteria[1])

(* C21: the overallScore of a report is the rounded sum of score * weight   *)
(* over the components analysed, with the weights skills 0.3, experience    *)
(* 0.3, education 0.2, location 0.1 and customCriteria 0.1; a component not *)
(* analysed adds nothing and the weights are not renormalized, so with      *)
(* category scores in [0,100] the overallScore is in [0,100], and at most   *)
(* 80 when neither the location nor custom criteria are analysed.           *)
C21_OverallScoreWeighted ==
  \A i \in 1..Len(ManagerReports) :
    LET report == ManagerReports[i].analysis
    IN  /\ report.overallScore = ClaimedOverall(report.categoryScores)
        /\ ScoresInRange(report.categoryScores) =>
             /\ InPercentRange(report.overallScore)
             /\ (report.categoryScores.location = <<>>
                 /\ report.categoryScores.customCriteria = <<>>)
                => Le(report.overallScore, Num(80))

\* a report whose category scores are all in range, the location and the
\* custom criteria being analysed too
C21_Witness ==
  /\ batch.pc = "resolved"
  /\ \E i \in 1..Len(ManagerReports) :
       /\ ScoresInRange(ManagerReports[i].analysis.categoryScores)
       /\ ManagerReports[i].analysis.categoryScores.location # <<>>
       /\ ManagerReports[i].analysis.categoryScores.customCriteria # <<>>
       /\ Gt(ManagerReports[i].analysis.overallScore, Num(0))

\* the maximum commute of the claim: the least of the distances given and 50,
\* a distance that is not given (0 here) being left out
ClaimedMaxCommute(candidateMax, jobMax) ==
  JsMin(Num(50), JsMin(IF candidateMax = 0 THEN Num(50) ELSE Num(candidateMax),
                       IF jobMax = 0 THEN Num(50) ELSE Num(jobMax)))

(* C22: the maximum commute distance analyzeLocation works with is the      *)
(* least of the candidate's maxCommuteDistance, the job's                    *)
(* maxAllowedCommuteDistance and 50, a missing value being ignored: it is    *)
(* never above 50 km, so a candidate is within commuting distance exactly    *)
(* when the distance is at most that minimum, and no distance above 50 km    *)
(* is 'commutable'.                                                          *)
C22_MaxCommuteAtMostFifty ==
  call.op = "analyzeLocation" =>
    /\ call.out.match.isWithinCommutingDistance
         <=> Le(call.out.match.distance,
                ClaimedMaxCommute(call.in.candidateMobility.maxCommuteDistance,
                                  call.in.jobRequirements.maxAllowedCommuteDistance))
    /\ call.out.match.matchType = "commutable" => Le(call.out.match.distance, Num(50))

\* analyzeLocation has measured two locations of which one has no coordinates
Estimated ==
  /\ call.op = "analyzeLocation"
  /\ (call.in.candidateLocation.coordinates = <<>> \/ call.in.jobLocation.coordinates = <<>>)

(* C23: when one of the two locations has no coordinates the distance is    *)
(* 1000 for two different countries, whether a region is given or not, and  *)
(* within one country 0 for the same city, 30 for two cities of the same    *)
(* region and 300 for two regions.                                          *)
C23_EstimatedDistanceTiers ==
  Estimated =>
    LET candidate == call.in.candidateLocation
        job == call.in.jobLocation
    IN  /\ candidate.country # job.country => call.out.match.distance = Num(1000)
        /\ candidate.country = job.country =>
             /\ candidate.city = job.city => call.out.match.distance = Num(0)
             /\ (candidate.city # job.city /\ candidate.region = job.region)
                  => call.out.match.distance = Num(30)
             /\ (candidate.city # job.city /\ candidate.region # job.region)
                  => call.out.match.distance = Num(300)

Reversed(s) == [i \in 1..Len(s) |-> s[Len(s) + 1 - i]]

\* what the claim calls the outcome of analyzeExperience
ExperienceOutcome(analysis) ==
  [matched |-> [i \in 1..Len(analysis.matches) |->
                  [requiredRole |-> analysis.matches[i].requiredRole,
                   matchedExperience |-> analysis.matches[i].matchedExperience]],
   totalRelevantExperience |-> analysis.totalRelevantExperience,
   gaps |-> analysis.gaps,
   score |-> analysis.score]

\* some experience is at least as relevant to the role as every experience
\* and reaches the threshold
RoleCovered(experiences, requiredRole) ==
  \E i \in 1..Len(experiences) :
    Ge(calculateRoleRelevance(requiredRole, experiences[i]), Rat(6, 10))

(* C24: the outcome of analyzeExperience (the experience matched to each    *)
(* role, totalRelevantExperience, gaps, score) is the same when the         *)
(* experiences are supplied in the reverse order; a required role is in     *)
(* gaps.roles iff no experience reaches relevance 0.6 for it, and otherwise *)
(* its match has the maximum relevance over all the experiences.            *)
C24_ExperienceOrderIrrelevant ==
  call.op = "analyzeExperience" =>
    /\ \A now \in NowDays :
         ExperienceOutcome(analyzeExperience(db, Reversed(call.in.experiences),
                                             call.in.requirements, Day(now)))
           = ExperienceOutcome(call.out)
    /\ \A r \in 1..Len(call.in.requirements.roles) :
         LET requiredRole == call.in.requirements.roles[r]
         IN  /\ Contains(call.out.gaps.roles, requiredRole)
                  <=> ~RoleCovered(call.in.experiences, requiredRole)
             /\ \A k \in 1..Len(call.out.matches) :
                  call.out.matches[k].requiredRole = requiredRole =>
                    \A i \in 1..Len(call.in.experiences) :
                      Ge(call.out.matches[k].relevance,
                         calculateRoleRelevance(requiredRole, call.in.experiences[i]))

\* the relevance of an education entry for a required degree and field
EntryRelevance(required, edu) ==
  EducationMatch(required, edu, getDegreeLevel(edu.degree), getDegreeLevel(required.degree),
                 calculateFieldMatch(required.field, edu.field),
                 isRelevantInstitution(edu.institution)).relevance

\* some entry not below the minimum level reaches relevance 0.6
Reachable(required, education, minimumDegreeLevel) ==
  \E i \in 1..Len(education) :
    /\ getDegreeLevel(education[i].degree) >= minimumDegreeLevel
    /\ Ge(EntryRelevance(required, education[i]), Rat(6, 10))

(* C25: a required degree and field is matched by analyzeEducation iff some *)
(* entry not below minimumDegreeLevel reaches relevance 0.6 for it, and     *)
(* otherwise its degree and its field are both pushed to the gaps: it is a  *)
(* gap only when no eligible entry reaches 0.6, whatever the order of the   *)
(* entries and the fields of the other entries.                             *)
C25_DegreeGapOnlyWithoutEligibleEntry ==
  call.op = "analyzeEducation" =>
    \A r \in 1..Len(call.in.requirements.degrees) :
      LET required == call.in.requirements.degrees[r]
          reached == Reachable(required, call.in.education,
                               call.in.requirements.minimumDegreeLevel)
      IN  /\ reached <=>
               \E k \in 1..Len(call.out.matches) :
                 /\ call.out.matches[k].requiredDegree = required.degree
                 /\ call.out.matches[k].requiredField = required.field
          /\ ~reached <=>
               /\ Contains(call.out.gaps.degrees, required.degree)
               /\ Contains(call.out.gaps.fields, required.field)

\* the recommendations of all the sub-analyses of a report, custom criteria
\* included, in the order the claim lists them
ClaimedRecommendations(report) ==
  report.skillsAnalysis.recommendations
  \o report.experienceAnalysis.recommendations
  \o report.educationAnalysis.recommendations
  \o (IF report.locationAnalysis = <<>> THEN <<>>
      ELSE Wrapped(report.locationAnalysis[1].recommendations))
  \o report.redFlags.recommendations
  \o (IF report.customCriteriaAnalysis = <<>> THEN <<>>
      ELSE report.customCriteriaAnalysis[1].recommendations)

(* C26: summary.recommendations is the list of the recommendations of the   *)
(* skills, experience, education, location, red-flag and custom-criteria    *)
(* analyses, without duplicates, in the order of first occurrence, cut to   *)
(* its first 5 entries: it has at most 5 entries and none twice.            *)
C26_SummaryRecommendationsMerged ==
  \A i \in 1..Len(ManagerReports) :
    LET report == ManagerReports[i].analysis
        recommendations == report.summary.recommendations
    IN  /\ recommendations = FirstFive(Unique(ClaimedRecommendations(report)))
        /\ Len(recommendations) <= 5
        /\ \A j, k \in 1..Len(recommendations) :
             j # k => recommendations[j] # recommendations[k]

-----------------------------------------------------------------------------
\* the career of the call, oldest start first
CareerInOrder == SortByKey(call.in.experiences, StartKey)

\* the tenures of less than 12 months among all the experiences
ClaimedShortTenures ==
  Cardinality({i \in 1..Len(call.in.experiences) : call.in.experiences[i].duration < 12})

\* position i holds a promotion keyword that the position before it lacks,
\* and starts less than 24 months after that position started
ClaimedPromotion(i) ==
  LET current == CareerInOrder[i]
      previous == CareerInOrder[i - 1]
  IN  /\ \E k \in 1..Len(promotionKeywords) :
           /\ includes(toLowerCase(current.role), promotionKeywords[k])
           /\ ~includes(toLowerCase(previous.role), promotionKeywords[k])
      /\ IsDate(current.startDate) /\ IsDate(previous.startDate)
      /\ calculateDuration(previous.startDate, current.startDate) <= 24

ClaimedPromotions == Cardinality({i \in 2..Len(CareerInOrder) : ClaimedPromotion(i)})

ClaimedRoleChanges ==
  Cardinality({i \in 2..Len(CareerInOrder) :
                 /\ ~includes(toLowerCase(CareerInOrder[i].role),
                              toLowerCase(CareerInOrder[i - 1].role))
                 /\ ~includes(toLowerCase(CareerInOrder[i - 1].role),
                              toLowerCase(CareerInOrder[i].role))})

(* C27: detectCareerProgression counts every experience of less than 12    *)
(* months as a short tenure and counts a promotion only for a role with a  *)
(* promotion keyword that follows, within 24 months, a role without that   *)
(* keyword; the progression is positive iff there is a promotion and at    *)
(* most one short tenure, otherwise irregular iff the role changes exceed  *)
(* half the number of experiences, otherwise stable.                       *)
C27_CareerProgressionCounts ==
  call.op = "detectCareerProgression" =>
    call.out.progression =
      IF ClaimedPromotions >= 1 /\ ClaimedShortTenures <= 1 THEN "positive"
      ELSE IF 2 * ClaimedRoleChanges > Len(call.in.experiences) THEN "irregular"
      ELSE "stable"

-----------------------------------------------------------------------------
\* the dated experiences of the call, oldest start first
DatedInOrder ==
  LET Dated(exp) == IsDate(exp.startDate)
  IN  SortByKey(SelectSeq(call.in.experiences, Dated), StartKey)

\* a role with a seniority keyword follows, in time, a role without one and
\* starts less than 24 months after it
ClaimedRapid ==
  \E i \in 2..Len(DatedInOrder) :
    /\ HasKeyword(toLowerCase(DatedInOrder[i].role), seniorityKeywords)
    /\ ~HasKeyword(toLowerCase(DatedInOrder[i - 1].role), seniorityKeywords)
    /\ calculateDuration(DatedInOrder[i - 1].startDate, DatedInOrder[i].startDate) < 24

RapidFlags ==
  {j \in 1..Len(call.out.flags) :
     call.out.flags[j].description = "Progression de carriere inhabituellement rapide"}

(* C28: the issue of an unusually rapid progression, of medium severity    *)
(* and flagged as a warning of impact 40, is raised iff some role with a   *)
(* seniority keyword follows in time a role without one and starts less    *)
(* than 24 months after it; the order in which the experiences are         *)
(* supplied does not matter, and a senior role that precedes a junior one  *)
(* in time never raises it.                                                *)
C28_RapidProgressionByChronology ==
  call.op = "analyzeProfile" =>
    /\ (RapidFlags # {}) <=> ClaimedRapid
    /\ \A j \in RapidFlags :
         /\ call.out.flags[j].type = "warning"
         /\ call.out.flags[j].impact = 40
         /\ call.out.flags[j].category = "experience"

-----------------------------------------------------------------------------
\* the authored pairs of the loaded catalog: <<k, s>> when s is listed as a
\* synonym of the key k in some category
AuthoredPairs ==
  UNION {UNION {{<<db.categories[c].synonyms[e].key, db.categories[c].synonyms[e].val[i]>> :
                   i \in 1..Len(db.categories[c].synonyms[e].val)} :
                e \in 1..Len(db.categories[c].synonyms)} :
         c \in 1..Len(db.categories)}

(* C29: once the catalog is loaded, from the default data or from the      *)
(* file, the synonym index is symmetric over every authored table:         *)
(* whenever s is listed as a synonym of the key k in a category,           *)
(* findSynonyms(k) contains s and findSynonyms(s) contains k.              *)
C29_SynonymIndexSymmetric ==
  \A pair \in AuthoredPairs :
    /\ Contains(findSynonyms(db, pair[1]), pair[2])
    /\ Contains(findSynonyms(db, pair[2]), pair[1])

-----------------------------------------------------------------------------
\* the result the persisting analyzeResume builds from the narrative
\* analyzer's answer
NarrativeResults ==
  AiResults(BasicResults(extractKeywords(extractTextFromPath(req.resume).text),
                         extractKeywords(req.jobDescription)),
            analyzeWithGemini(req.response).value)

(* C30: in the persisting analyzeResume, whenever the narrative analyzer   *)
(* succeeds, a returned result carries the narrative analyzer's matchScore *)
(* and aiAnalysis, whether saveAnalysis succeeds or fails: a failure of    *)
(* saveAnalysis is never handled as a failure of the narrative analyzer,   *)
(* with no keyword-only result and no row of a keyword-only result saved.  *)
C30_PersistenceKeepsNarrativeResult ==
  (/\ req.pc = "done"
   /\ req.fn = "analyzeResume with saveAnalysis"
   /\ Extracted
   /\ ~NarrativeFailed
   /\ req.out.ok)
    => /\ req.out.value.matchScore = NarrativeResults.matchScore
       /\ req.out.value.aiAnalysis = NarrativeResults.aiAnalysis
       /\ req.out.value.aiAnalysis # <<>>
       /\ \A i \in 1..Len(req.out.saved) :
            req.out.saved[i].match_score = NarrativeResults.matchScore

====
